---- MODULE Spec2Model ----
(***************************************************************************)
(* Session / streaming core of src/api/app.py: the process-wide tables     *)
(* sessions, message_queues and cancellation_requests, the background      *)
(* thread of AiderAPI.process_chat, the SSE relay of message_stream, and   *)
(* the request handlers that touch the same state.                         *)
(*                                                                         *)
(* The agent (aider's Coder) is outside the repository.  It is modelled    *)
(* as a record of the attributes app.py reads (edit_format,                *)
(* main_model.edit_format, last_aider_commit_hash, reflected_message,      *)
(* aider_edited_files, and abs_fnames, the files behind                    *)
(* get_inchat_relative_files) and run_stream as a generator whose every    *)
(* next() may yield a chunk, end, or raise.                                *)
(***************************************************************************)
EXTENDS Naturals, Sequences, FiniteSets, TLC

\* ------------------------------------------------------------- bounds
MaxTurns == 2
MaxRelays == 2
MaxChunks == 1
MaxCommits == 2
MaxCoders == 2
MaxTimeouts == 1
MaxMessages == 5
MaxRequests == 1
MaxQueued == 1
MaxFirsts == 2

\* ---------------------------------------------------------- constants
Sessions == {"s1", "s2"}
None == 0
\* a reading of time.time()
time_time == 1
max_reflections == 3
valid_modes == {"code", "architect", "ask", "context"}
\* values of main_model.edit_format: "code", and one native format that is
\* not the word "code"
NativeFormats == {"code", "diff"}
\* a key that a dict or a request does not have (dict.get gives None)
Unset == "None"
\* names of models a client may ask for
Models == {"m1", "m2"}
\* names of files of the repository
Files == {"a.py", "b.py"}
Hashes == 1..MaxCommits
\* 1771: the directory the server runs in, and a project path a client
\* names in initialize_project
ServerRoot == "root"
ProjectPath == "p1"

VARIABLES
    sessions,               \* dict session_id -> session record
    message_queues,         \* dict session_id -> queue object (index in queues)
    cancellation_requests,  \* dict session_id -> BOOLEAN
    disk,                   \* sessions/<id>.json : dict session_id -> snapshot
    coders,                 \* heap of Coder objects, in order of construction
    queues,                 \* heap of queue.Queue objects: contents
    threads,                \* the process_chat threads, in order of start
    relays,                 \* the message_stream connections, in order of arrival
    head,                   \* number of commits the agents have made so far
    qlog,                   \* history: everything ever put on each queue object
    response,               \* the last HTTP response
    requests,               \* the requests whose handler runs in steps
    cwd,                    \* os.getcwd(): the working directory of the process
    worker                  \* the worker backend process (aider_worker_backend)

vars == <<sessions, message_queues, cancellation_requests, disk, coders,
          queues, threads, relays, head, qlog, response, requests, cwd,
          worker>>

\* ------------------------------------------------------------ helpers
EmptyDict == [x \in {} |-> x]
DictSet(d, k, v) == (k :> v) @@ d
DictDel(d, k) == [x \in (DOMAIN d) \ {k} |-> d[x]]
Last(s) == s[Len(s)]
Count(ty, s) == Cardinality({i \in 1..Len(s) : s[i] = ty})
Threads == 1..Len(threads)
Relays == 1..Len(relays)
\* an event that does not say whose it is
C27_Anonymous(ty, t, h) ==
    [type |-> ty, turn |-> t, k |-> Len(threads[t].pub) + 1, hash |-> h,
     session_id |-> Unset]

\* an event put on a queue: its type, the thread that put it and its rank
\* among that thread's events (so that every event is distinct), the
\* commit hash a commit event carries, and the session_id of its data
Event(ty, t, h) ==
    [type |-> ty, turn |-> t, k |-> Len(threads[t].pub) + 1, hash |-> h,
     session_id |-> threads[t].session]
Resp(h, s, code) == [handler |-> h, session |-> s, status |-> code]

\* aider_worker_backend.py 28-32: the process before __main__ has run:
\* worker_coder is None (no coder), no process_chat thread, nothing published
\* on the session's output channel; head counts the commits of its agent
WorkerInit ==
    [started |-> FALSE, stopped |-> FALSE, worker_coder |-> <<>>,
     turns |-> <<>>, channel |-> <<>>, head |-> 0]

Init ==
    /\ sessions = EmptyDict
    /\ message_queues = EmptyDict
    /\ cancellation_requests = EmptyDict
    /\ disk = EmptyDict
    /\ coders = <<>>
    /\ queues = <<>>
    /\ threads = <<>>
    /\ relays = <<>>
    /\ head = 0
    /\ qlog = <<>>
    /\ response = Resp("none", "none", 0)
    /\ requests = <<>>
    /\ cwd = ServerRoot
    /\ worker = WorkerInit

\* ------------------------------------------------ persistence (57-80)
\* json.dump (70-71) of the values a session holds: a list becomes an
\* array, None becomes null, a commit hash a string, a time a number
DumpList(l) == [json |-> "array", items |-> l]
\* a dump that writes null for every hash
C15_DumpNull(h) == [json |-> "null"]

DumpHash(h) ==
    IF h = None THEN [json |-> "null"] ELSE [json |-> "string", value |-> h]
DumpNumber(x) == [json |-> "number", value |-> x]

\* json.load (77-78) of one JSON value
json_load(j) ==
    CASE j.json = "null" -> None
      [] j.json = "array" -> j.items
      [] OTHER -> j.value

\* 57-71: the file of a session is the JSON object of five of its keys
save_session(session_data) ==
    [messages |-> DumpList(session_data.messages),
     files |-> DumpList(session_data.files),
     last_aider_commit_hash |-> DumpHash(session_data.last_aider_commit_hash),
     input_history |-> DumpList(session_data.input_history),
     created_at |-> DumpNumber(session_data.created_at)]

\* 74-80: the dict read back from the file, or None (<<>>) without a file
load_session(session_id) ==
    IF session_id \in DOMAIN disk
    THEN <<[key \in DOMAIN disk[session_id] |->
               json_load(disk[session_id][key])]>>
    ELSE <<>>

\* ------------------------------------------- agent handles (108-166)
\* A freshly constructed Coder: no commit made, nothing reflected or edited.
\* mode is history: the mode set_mode built the handle for, if it did.
initialize_coder(fmt) ==
    [edit_format |-> fmt, native |-> fmt, last_aider_commit_hash |-> None,
     reflected_message |-> FALSE, aider_edited_files |-> FALSE,
     mode |-> "none", abs_fnames |-> <<>>, summarize_from_coder |-> FALSE,
     \* 124: Repo(os.getcwd(), search_parent_directories=True)
     root |-> cwd]

CoderOutcomes == {"fail"} \cup NativeFormats

\* --------------------------------------- get_or_create_session (503-579)
\* a new session seeded with the announcement alone
C16_NoGreeting(saved_data, handle, coder) ==
    IF saved_data # <<>>
    THEN [coder |-> handle,
          messages |-> saved_data[1].messages,
          files |-> saved_data[1].files,
          last_aider_commit_hash |-> saved_data[1].last_aider_commit_hash,
          input_history |-> saved_data[1].input_history,
          created_at |-> saved_data[1].created_at,
          model |-> Unset, project_path |-> Unset]
    ELSE [coder |-> handle,
          messages |-> <<"info">>,
          files |-> <<>>,
          last_aider_commit_hash |-> coder.last_aider_commit_hash,
          input_history |-> <<>>,
          created_at |-> time_time, model |-> Unset, project_path |-> Unset]

\* 545-567: the entry of a session built around a new handle: from the
\* saved data if there is a file, else new with the announcement (info)
\* and the greeting (assistant)
SessionFor(saved_data, handle, coder) ==
    IF saved_data # <<>>
    THEN [coder |-> handle,
          messages |-> saved_data[1].messages,
          files |-> saved_data[1].files,
          last_aider_commit_hash |-> saved_data[1].last_aider_commit_hash,
          input_history |-> saved_data[1].input_history,
          created_at |-> saved_data[1].created_at,
          model |-> Unset, project_path |-> Unset]
    ELSE [coder |-> handle,
          messages |-> <<"info", "assistant">>,
          files |-> <<>>,
          last_aider_commit_hash |-> coder.last_aider_commit_hash,
          input_history |-> <<>>,
          created_at |-> time_time, model |-> Unset, project_path |-> Unset]

\* o is what the call meets outside the tables: "wait" when the environment
\* says NEWREV_WAIT_FOR_PROJECT (511), else the outcome of
\* AiderAPI.initialize_coder: "fail" or the edit format of the coder it
\* returns.  The result carries the tables after the call.
get_or_create_session(session_id, o) ==
    IF session_id \in DOMAIN sessions
    THEN [ok |-> TRUE, sessions |-> sessions, coders |-> coders, disk |-> disk]
    ELSE IF o = "wait"
    THEN \* 513-531: NEWREV_WAIT_FOR_PROJECT is set: a session without a
         \* handle, which is not saved
         [ok |-> TRUE,
          sessions |-> DictSet(sessions, session_id,
              [coder |-> None, messages |-> <<"info", "assistant">>,
               files |-> <<>>, last_aider_commit_hash |-> None,
               input_history |-> <<>>, created_at |-> time_time,
               model |-> Unset, project_path |-> Unset]),
          coders |-> coders, disk |-> disk]
    ELSE IF o = "fail"
    THEN [ok |-> FALSE, sessions |-> sessions, coders |-> coders, disk |-> disk]
    ELSE LET saved_data == load_session(session_id)
             coder == initialize_coder(o)
             new == SessionFor(saved_data, Len(coders) + 1, coder)
         IN [ok |-> TRUE,
             sessions |-> DictSet(sessions, session_id, new),
             coders |-> Append(coders, coder),
             disk |-> DictSet(disk, session_id, save_session(new))]

\* outcomes of initialize_coder that a request on session_id can meet
Outcomes(session_id) ==
    IF session_id \in DOMAIN sessions THEN {"unused"}
    ELSE CoderOutcomes \cup {"wait"}
AnyOutcome == CoderOutcomes \cup {"unused"}
\* the heap bound: a request that would construct a Coder needs room
Room(session_id) == session_id \in DOMAIN sessions \/ Len(coders) < MaxCoders

\* ------------------------------------------------- send_message (603-631)
\* ------------------------------------------- initialize_session (582-600)
initialize_session(session_id, o) ==
    /\ Room(session_id)
    /\ o \in Outcomes(session_id)
    /\ LET g == get_or_create_session(session_id, o) IN
       /\ sessions' = g.sessions
       /\ coders' = g.coders
       /\ disk' = g.disk
       /\ response' = Resp("initialize_session", session_id,
                           IF g.ok THEN 200 ELSE 500)
    /\ UNCHANGED <<cwd, worker, requests, message_queues, cancellation_requests, queues,
                   threads,
                   relays, head, qlog>>

\* a thread that has published before send_message has returned
C29_Eager(session_id, coder) ==
    [session |-> session_id, coder |-> coder, pc |-> "q_check",
     message_queue |-> 0, use_reflections |-> FALSE, num_reflections |-> 0,
     current_prompt |-> "user", current_commit |-> None,
     session_commit |-> None,
     chunks |-> 0, pub |-> <<"message_chunk">>, prompts |-> <<>>,
     appended |-> 0,
     raised |-> FALSE, diff_failed |-> FALSE, cancel_requested |-> FALSE,
     committed |-> None]

\* the locals of a process_chat thread at thread.start()
NewThread(session_id, coder) ==
    [session |-> session_id, coder |-> coder, pc |-> "q_check",
     message_queue |-> 0, use_reflections |-> FALSE, num_reflections |-> 0,
     current_prompt |-> "user", current_commit |-> None,
     session_commit |-> None,
     \* history (committed: the last commit the agent made in this turn)
     chunks |-> 0, pub |-> <<>>, prompts |-> <<>>, appended |-> 0,
     raised |-> FALSE, diff_failed |-> FALSE, cancel_requested |-> FALSE,
     committed |-> None]

send_message(session_id, message, o) ==
    /\ Len(threads) < MaxTurns
    /\ Room(session_id)
    /\ o \in Outcomes(session_id)
    /\ IF message = ""
       THEN /\ response' = Resp("send_message", session_id, 400)
            /\ UNCHANGED <<cwd, worker, sessions, coders, disk, threads>>
       ELSE LET g == get_or_create_session(session_id, o) IN
            IF ~g.ok
            THEN /\ response' = Resp("send_message", session_id, 500)
                 /\ UNCHANGED <<cwd, worker, sessions, coders, disk, threads>>
            ELSE IF g.sessions[session_id].coder = None
            THEN \* 620-622: the entry is appended, then coder.io raises
                 \* AttributeError on None: the request fails
                 /\ Len(g.sessions[session_id].messages) < MaxMessages
                 /\ sessions' = [g.sessions EXCEPT ![session_id].messages =
                                     Append(@, "user")]
                 /\ response' = Resp("send_message", session_id, 500)
                 /\ UNCHANGED <<cwd, worker, coders, disk, threads>>
            ELSE LET session == [g.sessions[session_id] EXCEPT
                                    !.messages = Append(@, "user"),
                                    !.input_history = Append(@, message)] IN
                 /\ sessions' = DictSet(g.sessions, session_id, session)
                 /\ coders' = g.coders
                 /\ disk' = DictSet(g.disk, session_id, save_session(session))
                 /\ threads' = Append(threads,
                                      NewThread(session_id, session.coder))
                 /\ response' = Resp("send_message", session_id, 200)
    /\ UNCHANGED <<cwd, worker, requests, message_queues, cancellation_requests, queues,
                   relays,
                   head, qlog>>

\* ----------------------------------------------- cancel_message (633-653)
Running(t) == threads[t].pc # "done"

\* a cancel request that reaches every session
C24_CancelAll(session_id) ==
    /\ cancellation_requests' = [s \in Sessions |-> TRUE]
    /\ threads' = IF threads = <<>> THEN threads ELSE
                  [t \in Threads |->
                     IF Running(t)
                     THEN [threads[t] EXCEPT !.cancel_requested = TRUE]
                     ELSE threads[t]]
    /\ response' = Resp("cancel_message", session_id, 200)
    /\ UNCHANGED <<cwd, worker, requests, sessions, message_queues, disk, coders, queues,
                   relays,
                   head, qlog>>

cancel_message(session_id) ==
    /\ cancellation_requests' = DictSet(cancellation_requests, session_id, TRUE)
    /\ threads' = IF threads = <<>> THEN threads ELSE
                  [t \in Threads |->
                     IF threads[t].session = session_id /\ Running(t)
                     THEN [threads[t] EXCEPT !.cancel_requested = TRUE]
                     ELSE threads[t]]
    /\ response' = Resp("cancel_message", session_id, 200)
    /\ UNCHANGED <<cwd, worker, requests, sessions, message_queues, disk, coders, queues,
                   relays,
                   head, qlog>>

\* ------------------------- AiderAPI.process_chat.run_stream (176-485)
SetThread(t, th) == threads' = [threads EXCEPT ![t] = th]
Published(th, ty) == [th EXCEPT !.pub = Append(@, ty)]
\* a put on a queue of one place, which waits for the place
C25_Bounded(q, event) ==
    /\ queues[q] = <<>>
    /\ queues' = [queues EXCEPT ![q] = Append(@, event)]
    /\ qlog' = [qlog EXCEPT ![q] = Append(@, event)]

\* message_queue.put(event) on queue object q
Put(q, event) ==
    /\ queues' = [queues EXCEPT ![q] = Append(@, event)]
    /\ qlog' = [qlog EXCEPT ![q] = Append(@, event)]

\* 184: if session_id not in message_queues
EnsureQueue(t) ==
    LET th == threads[t] IN
    /\ th.pc = "q_check"
    /\ SetThread(t, [th EXCEPT !.pc =
            IF th.session \in DOMAIN message_queues THEN "q_get" ELSE "q_new"])
    /\ UNCHANGED <<cwd, worker, requests, sessions, message_queues, cancellation_requests,
                   disk,
                   coders, queues, relays, head, qlog, response>>

\* 185: message_queues[session_id] = queue.Queue()
InstallQueue(t) ==
    LET th == threads[t] IN
    /\ th.pc = "q_new"
    /\ queues' = Append(queues, <<>>)
    /\ qlog' = Append(qlog, <<>>)
    /\ message_queues' = DictSet(message_queues, th.session, Len(queues) + 1)
    /\ SetThread(t, [th EXCEPT !.pc = "q_get"])
    /\ UNCHANGED <<cwd, worker, requests, sessions, cancellation_requests, disk, coders,
                   relays,
                   head, response>>

\* 193-194: use_reflections = (getattr(coder, 'edit_format', 'code') == 'code')
UseReflections(coder) == coder.edit_format = "code"

\* 189-221: message_queue = message_queues[session_id]; the mode; the first
\* call of coder.run_stream(prompt)
GetQueue(t) ==
    LET th == threads[t] IN
    /\ th.pc = "q_get"
    /\ SetThread(t, [th EXCEPT
            !.pc = "stream",
            !.message_queue = message_queues[th.session],
            !.use_reflections = UseReflections(coders[th.coder]),
            !.prompts = Append(@, th.current_prompt)])
    /\ UNCHANGED <<cwd, worker, requests, sessions, message_queues, cancellation_requests,
                   disk,
                   coders, queues, relays, head, qlog, response>>

\* The agent may commit while it runs: its last_aider_commit_hash after a
\* step of the generator is what it was, or a new commit.
AgentCommits(coder, commit) ==
    IF commit /\ head < MaxCommits
    THEN {head + 1} ELSE {coder.last_aider_commit_hash}
\* history: the last commit the agent has made in the turn of thread th
Made(th, commit) ==
    IF commit /\ head < MaxCommits THEN head + 1 ELSE th.committed
Committed(coder, h) ==
    /\ coders' = [coders EXCEPT ![coder].last_aider_commit_hash = h]
    /\ head' = IF h = coders[coder].last_aider_commit_hash THEN head ELSE h

\* 221 / 326: next() of coder.run_stream(prompt) yields a chunk
StreamChunk(t, commit) ==
    LET th == threads[t] IN
    /\ th.pc = "stream"
    /\ th.chunks < MaxChunks
    /\ \E h \in AgentCommits(coders[th.coder], commit) :
          Committed(th.coder, h)
    /\ SetThread(t, [th EXCEPT !.pc = "chunk", !.chunks = @ + 1,
                              !.committed = Made(th, commit)])
    /\ UNCHANGED <<cwd, worker, requests, sessions, message_queues, cancellation_requests,
                   disk,
                   queues, relays, qlog, response>>

\* 221 / 326: the generator is exhausted; the agent has set what it reports
StreamEnd(t, commit, refl, ed) ==
    LET th == threads[t] IN
    /\ th.pc = "stream"
    /\ \E h \in AgentCommits(coders[th.coder], commit) :
          /\ coders' = [coders EXCEPT ![th.coder] =
                [@ EXCEPT !.last_aider_commit_hash = h,
                          !.reflected_message = refl,
                          !.aider_edited_files = ed]]
          /\ head' = IF h = coders[th.coder].last_aider_commit_hash
                     THEN head ELSE h
    /\ SetThread(t, [th EXCEPT !.pc = "append",
                              !.committed = Made(th, commit)])
    /\ UNCHANGED <<cwd, worker, requests, sessions, message_queues, cancellation_requests,
                   disk,
                   queues, relays, qlog, response>>

\* 221 / 326: the generator raises
StreamRaise(t) ==
    LET th == threads[t] IN
    /\ th.pc = "stream"
    /\ SetThread(t, [th EXCEPT !.pc = "except", !.raised = TRUE])
    /\ UNCHANGED <<cwd, worker, requests, sessions, message_queues, cancellation_requests,
                   disk,
                   coders, queues, relays, head, qlog, response>>

\* the check of the flag left out
C2_NeverRequested(session_id) == FALSE

\* 223 / 328: cancellation_requests.get(session_id, False)
CancellationRequested(session_id) ==
    IF session_id \in DOMAIN cancellation_requests
    THEN cancellation_requests[session_id] ELSE FALSE

\* 223-228 / 328-333: the flag is set: put message_cancelled
PutCancelled(t) ==
    LET th == threads[t] IN
    /\ th.pc = "chunk"
    /\ CancellationRequested(th.session)
    /\ Put(th.message_queue, Event("message_cancelled", t, None))
    /\ SetThread(t, [Published(th, "message_cancelled") EXCEPT !.pc = "clear"])
    /\ UNCHANGED <<cwd, worker, requests, sessions, message_queues, cancellation_requests,
                   disk,
                   coders, relays, head, response>>

\* the return without the reset of the flag
C3_ReturnOnly(t) ==
    LET th == threads[t] IN
    /\ th.pc = "clear"
    /\ SetThread(t, [th EXCEPT !.pc = "done"])
    /\ UNCHANGED <<cwd, worker, requests, sessions, message_queues, cancellation_requests,
                   disk,
                   coders, queues, relays, head, qlog, response>>

\* a cancellation that breaks out of the loop and goes on to the checks
C33_Break(t) ==
    LET th == threads[t] IN
    /\ th.pc = "clear"
    /\ cancellation_requests' =
           DictSet(cancellation_requests, th.session, FALSE)
    /\ SetThread(t, [th EXCEPT !.pc = "edits"])
    /\ UNCHANGED <<cwd, worker, requests, sessions, message_queues, disk, coders, queues,
                   relays,
                   head, qlog, response>>

\* 230-231 / 335-336: cancellation_requests[session_id] = False; return
ClearCancellation(t) ==
    LET th == threads[t] IN
    /\ th.pc = "clear"
    /\ cancellation_requests' =
           DictSet(cancellation_requests, th.session, FALSE)
    /\ SetThread(t, [th EXCEPT !.pc = "done"])
    /\ UNCHANGED <<cwd, worker, requests, sessions, message_queues, disk, coders, queues,
                   relays,
                   head, qlog, response>>

\* 233-244 / 338-349: the flag is not set: put message_chunk
PutChunk(t) ==
    LET th == threads[t] IN
    /\ th.pc = "chunk"
    /\ ~CancellationRequested(th.session)
    /\ Put(th.message_queue, Event("message_chunk", t, None))
    /\ SetThread(t, [Published(th, "message_chunk") EXCEPT !.pc = "stream"])
    /\ UNCHANGED <<cwd, worker, requests, sessions, message_queues, cancellation_requests,
                   disk,
                   coders, relays, head, response>>

\* a round that ends without an entry of the assistant
C17_NoAppend(t) ==
    LET th == threads[t] IN
    /\ th.pc = "append"
    /\ SetThread(t, [th EXCEPT !.pc = "complete"])
    /\ UNCHANGED <<cwd, worker, requests, sessions, message_queues, cancellation_requests,
                   disk,
                   coders, queues, relays, head, qlog, response>>

\* 251-255 / 356-360: append the assistant entry if the session is there
AppendAssistant(t) ==
    LET th == threads[t] IN
    /\ th.pc = "append"
    /\ IF th.session \in DOMAIN sessions
       THEN /\ sessions' = [sessions EXCEPT ![th.session].messages =
                                Append(@, "assistant")]
            /\ SetThread(t, [th EXCEPT !.pc = "complete", !.appended = @ + 1])
       ELSE /\ UNCHANGED sessions
            /\ SetThread(t, [th EXCEPT !.pc = "complete"])
    /\ UNCHANGED <<cwd, worker, requests, message_queues, cancellation_requests, disk,
                   coders,
                   queues, relays, head, qlog, response>>

\* 259-266 / 364-367: put message_complete
PutComplete(t) ==
    LET th == threads[t] IN
    /\ th.pc = "complete"
    /\ Put(th.message_queue, Event("message_complete", t, None))
    /\ SetThread(t, [Published(th, "message_complete") EXCEPT
            !.pc = "reflect", !.current_prompt = "none"])
    /\ UNCHANGED <<cwd, worker, requests, sessions, message_queues, cancellation_requests,
                   disk,
                   coders, relays, head, response>>

\* no ceiling at all
C1_NoCeiling(num_reflections) == TRUE

\* a ceiling that lets one reflection too many through
C4_OffByOne(num_reflections) == num_reflections <= max_reflections

\* 274: if num_reflections < max_reflections
UnderCeiling(num_reflections) == num_reflections < max_reflections


\* 269-312 (code mode): the agent reports a reflected message under the
\* ceiling: count it and put reflection_info
ReflectAgain(t) ==
    LET th == threads[t] IN
    /\ th.pc = "reflect"
    /\ th.use_reflections
    /\ coders[th.coder].reflected_message
    /\ UnderCeiling(th.num_reflections)
    /\ Put(th.message_queue, Event("reflection_info", t, None))
    /\ SetThread(t, [Published(th, "reflection_info") EXCEPT
            !.pc = "refl_append", !.num_reflections = @ + 1])
    /\ UNCHANGED <<cwd, worker, requests, sessions, message_queues, cancellation_requests,
                   disk,
                   coders, relays, head, response>>

\* 300-310 (code mode): a reflected message at the ceiling: reflection_limit
ReflectLimit(t) ==
    LET th == threads[t] IN
    /\ th.pc = "reflect"
    /\ th.use_reflections
    /\ coders[th.coder].reflected_message
    /\ ~UnderCeiling(th.num_reflections)
    /\ Put(th.message_queue, Event("reflection_limit", t, None))
    /\ SetThread(t, [Published(th, "reflection_limit") EXCEPT !.pc = "edits"])
    /\ UNCHANGED <<cwd, worker, requests, sessions, message_queues, cancellation_requests,
                   disk,
                   coders, relays, head, response>>

\* 371-383 (other modes): a reflected message is shown as reflection_info
ReflectNote(t) ==
    LET th == threads[t] IN
    /\ th.pc = "reflect"
    /\ ~th.use_reflections
    /\ coders[th.coder].reflected_message
    /\ Put(th.message_queue, Event("reflection_info", t, None))
    /\ SetThread(t, [Published(th, "reflection_info") EXCEPT
            !.pc = "refl_append"])
    /\ UNCHANGED <<cwd, worker, requests, sessions, message_queues, cancellation_requests,
                   disk,
                   coders, relays, head, response>>

\* 311-314 / 404-407: no reflected message: the loop ends
NoReflection(t) ==
    LET th == threads[t] IN
    /\ th.pc = "reflect"
    /\ ~coders[th.coder].reflected_message
    /\ SetThread(t, [th EXCEPT !.pc = "edits"])
    /\ UNCHANGED <<cwd, worker, requests, sessions, message_queues, cancellation_requests,
                   disk,
                   coders, queues, relays, head, qlog, response>>

\* 298: current_prompt = coder.reflected_message, as it reads at that line
NextPrompt(coder) == IF coder.reflected_message THEN "reflected" ELSE "none"

\* 290-298 (code mode): append the info entry, take the reflected message
\* as the next prompt; 211: while current_prompt
ReflectAppend(t) ==
    LET th == threads[t]
        prompt == NextPrompt(coders[th.coder]) IN
    /\ th.pc = "refl_append"
    /\ th.use_reflections
    /\ IF th.session \in DOMAIN sessions
       THEN sessions' = [sessions EXCEPT ![th.session].messages =
                            Append(@, "info")]
       ELSE UNCHANGED sessions
    /\ SetThread(t, IF prompt = "none"
                    THEN [th EXCEPT !.pc = "edits", !.current_prompt = prompt]
                    ELSE [th EXCEPT !.pc = "stream", !.current_prompt = prompt,
                                    !.prompts = Append(@, prompt)])
    /\ UNCHANGED <<cwd, worker, requests, message_queues, cancellation_requests, disk,
                   coders,
                   queues, relays, head, qlog, response>>

\* the reflected message resubmitted outside the reflective loop
C5_Resubmit(t) ==
    LET th == threads[t] IN
    /\ th.pc = "refl_append"
    /\ ~th.use_reflections
    /\ SetThread(t, [th EXCEPT !.pc = "stream",
                               !.current_prompt = "reflected",
                               !.prompts = Append(@, "reflected")])
    /\ UNCHANGED <<cwd, worker, requests, sessions, message_queues, cancellation_requests,
                   disk,
                   coders, queues, relays, head, qlog, response>>

\* 387-392 (other modes): append the info entry
NoteAppend(t) ==
    LET th == threads[t] IN
    /\ th.pc = "refl_append"
    /\ ~th.use_reflections
    /\ IF th.session \in DOMAIN sessions
       THEN sessions' = [sessions EXCEPT ![th.session].messages =
                            Append(@, "info")]
       ELSE UNCHANGED sessions
    /\ SetThread(t, [th EXCEPT !.pc = "refresh"])
    /\ UNCHANGED <<cwd, worker, requests, message_queues, cancellation_requests, disk,
                   coders,
                   queues, relays, head, qlog, response>>

\* 396-402 (other modes): put refresh_files
PutRefresh(t) ==
    LET th == threads[t] IN
    /\ th.pc = "refresh"
    /\ Put(th.message_queue, Event("refresh_files", t, None))
    /\ SetThread(t, [Published(th, "refresh_files") EXCEPT !.pc = "edits"])
    /\ UNCHANGED <<cwd, worker, requests, sessions, message_queues, cancellation_requests,
                   disk,
                   coders, relays, head, response>>

\* 413-422: files_edited if the agent reports edited files
CheckEdits(t) ==
    LET th == threads[t] IN
    /\ th.pc = "edits"
    /\ IF coders[th.coder].aider_edited_files
       THEN /\ Put(th.message_queue, Event("files_edited", t, None))
            /\ SetThread(t, [Published(th, "files_edited") EXCEPT
                    !.pc = "commits"])
       ELSE /\ SetThread(t, [th EXCEPT !.pc = "commits"])
            /\ UNCHANGED <<cwd, worker, queues, qlog>>
    /\ UNCHANGED <<cwd, worker, requests, sessions, message_queues, cancellation_requests,
                   disk,
                   coders, relays, head, response>>

\* 432: if session_commit != current_commit and current_commit
NewCommit(session_commit, current_commit) ==
    session_commit # current_commit /\ current_commit # None

\* 425-432: read the live and the cached commit id; sessions[session_id]
\* raises KeyError when the entry is gone
ReadCommits(t) ==
    LET th == threads[t]
        current_commit == coders[th.coder].last_aider_commit_hash IN
    /\ th.pc = "commits"
    /\ IF th.session \notin DOMAIN sessions
       THEN SetThread(t, [th EXCEPT !.pc = "except", !.raised = TRUE,
                                   !.current_commit = current_commit])
       ELSE LET session_commit ==
                    sessions[th.session].last_aider_commit_hash IN
            SetThread(t, [th EXCEPT
                !.current_commit = current_commit,
                !.session_commit = session_commit,
                !.pc = IF NewCommit(session_commit, current_commit)
                       THEN "diff" ELSE "save"])
    /\ UNCHANGED <<cwd, worker, requests, sessions, message_queues, cancellation_requests,
                   disk,
                   coders, queues, relays, head, qlog, response>>

\* 434-454: coder.repo.diff_commits, then put the commit event
PutCommit(t) ==
    LET th == threads[t] IN
    /\ th.pc = "diff"
    /\ Put(th.message_queue, Event("commit", t, th.current_commit))
    /\ SetThread(t, [Published(th, "commit") EXCEPT !.pc = "advance"])
    /\ UNCHANGED <<cwd, worker, requests, sessions, message_queues, cancellation_requests,
                   disk,
                   coders, relays, head, response>>

\* a reconciliation that lets the diff's exception out to the turn's handler
C20_DiffFatal(t) ==
    LET th == threads[t] IN
    /\ th.pc = "diff"
    /\ SetThread(t, [th EXCEPT !.pc = "except", !.diff_failed = TRUE])
    /\ UNCHANGED <<cwd, worker, requests, sessions, message_queues, cancellation_requests,
                   disk,
                   coders, queues, relays, head, qlog, response>>

\* 436, 458-459: diff_commits raises; the error is logged and swallowed
DiffFails(t) ==
    LET th == threads[t] IN
    /\ th.pc = "diff"
    /\ SetThread(t, [th EXCEPT !.pc = "save", !.diff_failed = TRUE])
    /\ UNCHANGED <<cwd, worker, requests, sessions, message_queues, cancellation_requests,
                   disk,
                   coders, queues, relays, head, qlog, response>>

\* 456: sessions[session_id]['last_aider_commit_hash'] = current_commit
\* (a KeyError here is swallowed by the handler of 458)
AdvanceCommit(t) ==
    LET th == threads[t] IN
    /\ th.pc = "advance"
    /\ IF th.session \in DOMAIN sessions
       THEN sessions' = [sessions EXCEPT
                ![th.session].last_aider_commit_hash = th.current_commit]
       ELSE UNCHANGED sessions
    /\ SetThread(t, [th EXCEPT !.pc = "save"])
    /\ UNCHANGED <<cwd, worker, requests, message_queues, cancellation_requests, disk,
                   coders,
                   queues, relays, head, qlog, response>>

\* 464-466: save the session if it is there; the thread ends
FinalSave(t) ==
    LET th == threads[t] IN
    /\ th.pc = "save"
    /\ IF th.session \in DOMAIN sessions
       THEN disk' = DictSet(disk, th.session,
                            save_session(sessions[th.session]))
       ELSE UNCHANGED disk
    /\ SetThread(t, [th EXCEPT !.pc = "done"])
    /\ UNCHANGED <<cwd, worker, requests, sessions, message_queues, cancellation_requests,
                   coders,
                   queues, relays, head, qlog, response>>

\* a handler that ends the thread without a word
C13_Silent(t) ==
    LET th == threads[t] IN
    /\ th.pc = "except"
    /\ SetThread(t, [th EXCEPT !.pc = "done"])
    /\ UNCHANGED <<cwd, worker, requests, sessions, message_queues, cancellation_requests,
                   disk,
                   coders, queues, relays, head, qlog, response>>

\* 472-485: the exception handler puts one error event on the session's
\* current queue
PutError(t) ==
    LET th == threads[t] IN
    /\ th.pc = "except"
    /\ IF th.session \in DOMAIN message_queues
       THEN /\ Put(message_queues[th.session], Event("error", t, None))
            /\ SetThread(t, [Published(th, "error") EXCEPT !.pc = "done"])
       ELSE /\ SetThread(t, [th EXCEPT !.pc = "done"])
            /\ UNCHANGED <<cwd, worker, queues, qlog>>
    /\ UNCHANGED <<cwd, worker, requests, sessions, message_queues, cancellation_requests,
                   disk,
                   coders, relays, head, response>>

\* the steps of the thread that are app.py's own; the steps of the agent
\* (StreamChunk, StreamEnd, StreamRaise, DiffFails) are listed by each
\* specification with the agent behaviour it explores
run_stream(t) ==
    \/ EnsureQueue(t) \/ InstallQueue(t) \/ GetQueue(t)
    \/ PutCancelled(t) \/ ClearCancellation(t) \/ PutChunk(t)
    \/ AppendAssistant(t) \/ PutComplete(t)
    \/ ReflectAgain(t) \/ ReflectLimit(t) \/ ReflectNote(t) \/ NoReflection(t)
    \/ ReflectAppend(t) \/ NoteAppend(t) \/ PutRefresh(t)
    \/ CheckEdits(t) \/ ReadCommits(t) \/ PutCommit(t)
    \/ AdvanceCommit(t) \/ FinalSave(t) \/ PutError(t)

\* ------------------------------------------------------------------------
\* message_stream (656-706)
\* ------------------------------------------------------------------------
\* a frame that generate() makes itself (connected, keep-alive)
Frame(ty) ==
    [type |-> ty, turn |-> 0, k |-> 0, hash |-> None, session_id |-> Unset]
SetRelay(r, rl) == relays' = [relays EXCEPT ![r] = rl]

\* 659-665: a client connects; if session_id not in message_queues
message_stream(session_id) ==
    /\ Len(relays) < MaxRelays
    /\ relays' = Append(relays,
           [session |-> session_id,
            pc |-> IF session_id \in DOMAIN message_queues
                   THEN "q_get" ELSE "q_new",
            message_queue |-> 0, message |-> Frame("none"),
            frames |-> <<>>, timeouts |-> 0])
    /\ UNCHANGED <<cwd, worker, requests, sessions, message_queues, cancellation_requests,
                   disk,
                   coders, queues, threads, head, qlog, response>>

\* 666: message_queues[session_id] = queue.Queue()
RelayInstallQueue(r) ==
    LET rl == relays[r] IN
    /\ rl.pc = "q_new"
    /\ queues' = Append(queues, <<>>)
    /\ qlog' = Append(qlog, <<>>)
    /\ message_queues' = DictSet(message_queues, rl.session, Len(queues) + 1)
    /\ SetRelay(r, [rl EXCEPT !.pc = "q_get"])
    /\ UNCHANGED <<cwd, worker, requests, sessions, cancellation_requests, disk, coders,
                   threads,
                   head, response>>

\* 669-675: message_queue = message_queues[session_id]; yield connected
RelayConnected(r) ==
    LET rl == relays[r] IN
    /\ rl.pc = "q_get"
    /\ SetRelay(r, [rl EXCEPT !.pc = "wait",
                              !.message_queue = message_queues[rl.session],
                              !.frames = Append(@,
                                  [Frame("connected") EXCEPT
                                      !.session_id = rl.session])])
    /\ UNCHANGED <<cwd, worker, requests, sessions, message_queues, cancellation_requests,
                   disk,
                   coders, queues, threads, head, qlog, response>>

\* a get that hands out the newest item
C9_Newest(q) == q[Len(q)]

\* a get that leaves the item in the queue
C10_Peek(q) == q

\* queue.Queue.get: the item it returns and what it leaves in the queue
QueueGet(q) == Head(q)
QueueRest(q) == Tail(q)

\* 680: message = message_queue.get(timeout=30) returns an item
RelayGet(r) ==
    LET rl == relays[r] IN
    /\ rl.pc = "wait"
    /\ queues[rl.message_queue] # <<>>
    /\ queues' = [queues EXCEPT ![rl.message_queue] = QueueRest(@)]
    /\ SetRelay(r, [rl EXCEPT !.pc = "yield",
                              !.message = QueueGet(queues[rl.message_queue])])
    /\ UNCHANGED <<cwd, worker, requests, sessions, message_queues, cancellation_requests,
                   disk,
                   coders, threads, head, qlog, response>>

\* a relay that forwards the event and nothing else
C30_Bare(message) == <<message>>

\* the frames generate() yields for one message (683-690)
FramesOf(message) ==
    IF message.type = "message_complete"
    THEN <<message, Frame("keep-alive")>>
    ELSE <<message>>

\* 683-690: yield the event, and a keep-alive after message_complete
RelayYield(r) ==
    LET rl == relays[r] IN
    /\ rl.pc = "yield"
    /\ SetRelay(r, [rl EXCEPT !.pc = "wait",
                              !.frames = @ \o FramesOf(rl.message)])
    /\ UNCHANGED <<cwd, worker, requests, sessions, message_queues, cancellation_requests,
                   disk,
                   coders, queues, threads, head, qlog, response>>

\* a relay that gives the stream up at the timeout
C31_GiveUp(r) ==
    LET rl == relays[r] IN
    /\ rl.pc = "wait"
    /\ queues[rl.message_queue] = <<>>
    /\ rl.timeouts < MaxTimeouts
    /\ SetRelay(r, [rl EXCEPT !.frames = Append(@, Frame("keep-alive")),
                              !.timeouts = @ + 1,
                              !.pc = "closed"])
    /\ UNCHANGED <<cwd, worker, requests, sessions, message_queues, cancellation_requests,
                   disk,
                   coders, queues, threads, head, qlog, response>>

\* 692-694: queue.Empty after the timeout: yield a keep-alive, wait again
RelayTimeout(r) ==
    LET rl == relays[r] IN
    /\ rl.pc = "wait"
    /\ queues[rl.message_queue] = <<>>
    /\ rl.timeouts < MaxTimeouts
    /\ SetRelay(r, [rl EXCEPT !.frames = Append(@, Frame("keep-alive")),
                              !.timeouts = @ + 1])
    /\ UNCHANGED <<cwd, worker, requests, sessions, message_queues, cancellation_requests,
                   disk,
                   coders, queues, threads, head, qlog, response>>

\* 695-697: GeneratorExit at a yield: the client disconnected after a
\* frame that was yielded (pc = "wait"), or disconnects at the yield of the
\* event just taken (686), before the keep-alive of 690
RelayDisconnect(r) ==
    LET rl == relays[r] IN
    /\ rl.pc \in {"wait", "yield"}
    /\ SetRelay(r, [rl EXCEPT
            !.pc = "closed",
            !.frames = IF rl.pc = "yield" THEN Append(@, rl.message) ELSE @])
    /\ UNCHANGED <<cwd, worker, requests, sessions, message_queues, cancellation_requests,
                   disk,
                   coders, queues, threads, head, qlog, response>>

\* ------------------------------------------------------------------------
\* test_message (708-748): the reply is cut into chunks that are put on the
\* session's queue, then a message_complete.  It is taken in one step: the
\* sleeps between its puts let other threads' events fall between its own,
\* which changes the order of the events on the channel, not their data.
\* ------------------------------------------------------------------------
TestEvent(ty, k, session_id) ==
    [type |-> ty, turn |-> 0, k |-> k, hash |-> None,
     session_id |-> session_id]

test_message(session_id, chunks) ==
    LET fresh == session_id \notin DOMAIN message_queues
        q == IF fresh THEN Len(queues) + 1 ELSE message_queues[session_id]
        events == [k \in 1..chunks |->
                      TestEvent("message_chunk", k, session_id)] \o
                  <<TestEvent("message_complete", chunks + 1, session_id)>>
    IN
    /\ IF fresh THEN TRUE ELSE Len(qlog[q]) < MaxQueued
    /\ message_queues' = DictSet(message_queues, session_id, q)
    /\ queues' = IF fresh THEN Append(queues, events)
                 ELSE [queues EXCEPT ![q] = @ \o events]
    /\ qlog' = IF fresh THEN Append(qlog, events)
               ELSE [qlog EXCEPT ![q] = @ \o events]
    /\ response' = Resp("test_message", session_id, 200)
    /\ UNCHANGED <<cwd, worker, requests, sessions, cancellation_requests, disk, coders,
                   threads, relays, head>>

generate(r) ==
    \/ RelayInstallQueue(r) \/ RelayConnected(r) \/ RelayGet(r)
    \/ RelayYield(r) \/ RelayTimeout(r) \/ RelayDisconnect(r)

\* ------------------------------------------------------------------------
\* undo_commit (968-1002)
\* ------------------------------------------------------------------------
\* the request checked against the cached id alone
C8_CachedOnly(session, coder, commit_hash) ==
    session.last_aider_commit_hash # commit_hash

\* 985: the request is refused
NotLatest(session, coder, commit_hash) ==
    \/ session.last_aider_commit_hash # commit_hash
    \/ coder.last_aider_commit_hash # commit_hash

\* cmd_undo is the agent's: it may raise, it may return a reply, and it may
\* or may not reset the agent's own last_aider_commit_hash.
UndoOutcomes == [raises : {FALSE}, reply : BOOLEAN, resets : BOOLEAN]
                  \cup [raises : {TRUE}, reply : {FALSE}, resets : {FALSE}]

undo_commit(session_id, commit_hash, o, u) ==
    /\ Room(session_id)
    /\ o \in Outcomes(session_id)
    /\ IF commit_hash = None
       THEN /\ response' = Resp("undo_commit", session_id, 400)
            /\ UNCHANGED <<cwd, worker, sessions, coders, disk>>
       ELSE LET g == get_or_create_session(session_id, o) IN
            IF ~g.ok
            THEN /\ response' = Resp("undo_commit", session_id, 500)
                 /\ UNCHANGED <<cwd, worker, sessions, coders, disk>>
            ELSE LET session == g.sessions[session_id]
                     coder == g.coders[session.coder] IN
                 /\ disk' = g.disk
                 /\ IF NotLatest(session, coder, commit_hash)
                    THEN /\ sessions' = g.sessions
                         /\ coders' = g.coders
                         /\ response' = Resp("undo_commit", session_id, 400)
                    ELSE IF u.raises
                         THEN /\ sessions' = g.sessions
                              /\ coders' = g.coders
                              /\ response' =
                                     Resp("undo_commit", session_id, 500)
                         ELSE /\ sessions' = DictSet(g.sessions, session_id,
                                    [session EXCEPT
                                       !.messages = @ \o
                                           (IF u.reply
                                            THEN <<"info", "assistant">>
                                            ELSE <<"info">>),
                                       !.last_aider_commit_hash = None])
                              /\ coders' = IF u.resets
                                    THEN [g.coders EXCEPT ![session.coder]
                                            .last_aider_commit_hash = None]
                                    ELSE g.coders
                              /\ response' =
                                     Resp("undo_commit", session_id, 200)
    /\ UNCHANGED <<cwd, worker, requests, message_queues, cancellation_requests, queues,
                   threads,
                   relays, head, qlog>>

\* ------------------------------------------------------------------------
\* set_mode (1128-1284)
\* ------------------------------------------------------------------------
\* 1181-1188: the edit format of the handle built for a mode
EditFormatFor(mode, current_coder) ==
    IF mode = "code" THEN current_coder.native ELSE mode

\* Coder.create(from_coder=...) is the agent's: it raises (carried = "fail")
\* or returns a handle that has the model of the outgoing one and either
\* carries its last_aider_commit_hash (carried = "last") or has none
\* (carried = "none").
CreateOutcomes == {"fail", "last", "none"}

\* 1181-1188: the summarize_from_coder flag computed for a mode
SummarizeFor(mode) == mode \notin {"code", "ask"}

\* 1216-1220: the keyword arguments Coder.create is called with.  The kwargs
\* dict of 1190-1206 is built and never passed on.
CreateArgs(mode, current_coder) ==
    [edit_format |-> EditFormatFor(mode, current_coder),
     summarize_from_coder |-> FALSE]

\* values a client may send as reasoning_effort and thinking_tokens, and the
\* ones float() (1202) and int() (1206) accept
\* (Unset: the key is missing from the request and data.get gives None)
Efforts == {Unset, "0.5", "high"}
Tokens == {Unset, "1024", "many"}
float_ok(x) == x \in {"0.5", "1024"}
int_ok(x) == x \in {"1024"}
\* a handler that passes the parameters on as they came
C22_Unchecked(params) == TRUE

Converted(params) ==
    /\ params.reasoning_effort # Unset => float_ok(params.reasoning_effort)
    /\ params.thinking_tokens # Unset => int_ok(params.thinking_tokens)
NoParams == [reasoning_effort |-> Unset, thinking_tokens |-> Unset]
ModeParams == [reasoning_effort : Efforts, thinking_tokens : Tokens]

\* a switch that installs the handle and says nothing
C21_Silent(session, handle, announcements) ==
    [session EXCEPT !.coder = handle]

\* 1239-1265 on a session: the new handle, the switch message and, if the
\* new handle has announcements, a second info entry
ModeSwitched(session, handle, announcements) ==
    [session EXCEPT
        !.coder = handle,
        !.messages = @ \o (IF announcements THEN <<"info", "info">>
                                            ELSE <<"info">>)]

set_mode(session_id, mode, params, o, c, announcements) ==
    /\ o \in Outcomes(session_id)
    /\ IF mode \notin valid_modes
       THEN /\ response' = Resp("set_mode", session_id, 400)
            /\ UNCHANGED <<cwd, worker, sessions, coders, disk>>
       ELSE /\ Len(coders) + (IF session_id \in DOMAIN sessions THEN 1 ELSE 2)
                 <= MaxCoders
            /\ LET g == get_or_create_session(session_id, o) IN
               IF ~g.ok
               THEN /\ response' = Resp("set_mode", session_id, 404)
                    /\ UNCHANGED <<cwd, worker, sessions, coders, disk>>
               ELSE IF \/ g.sessions[session_id].coder = None
                       \/ ~Converted(params)
                       \/ c = "fail"
               THEN \* 1185 or 1213 raises AttributeError on None, 1202 or
                    \* 1206 raises ValueError, or Coder.create raises
                    /\ sessions' = g.sessions
                    /\ coders' = g.coders
                    /\ disk' = g.disk
                    /\ response' = Resp("set_mode", session_id, 500)
               ELSE LET session == g.sessions[session_id]
                        current_coder == g.coders[session.coder]
                        args == CreateArgs(mode, current_coder)
                        new_coder ==
                            [edit_format |-> args.edit_format,
                             native |-> current_coder.native,
                             last_aider_commit_hash |->
                                 IF c = "last"
                                 THEN current_coder.last_aider_commit_hash
                                 ELSE None,
                             reflected_message |-> FALSE,
                             aider_edited_files |-> FALSE,
                             mode |-> mode,
                             abs_fnames |-> current_coder.abs_fnames,
                             root |-> current_coder.root,
                             summarize_from_coder |->
                                 args.summarize_from_coder] IN
                    /\ disk' = g.disk
                    /\ coders' = Append(g.coders, new_coder)
                    /\ sessions' = DictSet(g.sessions, session_id,
                          ModeSwitched(session, Len(g.coders) + 1,
                                       announcements))
                    /\ response' = Resp("set_mode", session_id, 200)
    /\ UNCHANGED <<cwd, worker, requests, message_queues, cancellation_requests, queues,
                   threads, relays, head, qlog>>

\* ------------------------------------------------------------------------
\* initialize_project (1286-1409)
\* ------------------------------------------------------------------------
\* path_ok: the project path exists and is a git repository (1306-1317);
\* o: the outcome of AiderAPI.initialize_coder(args) (1346)
initialize_project(session_id, path_ok, o) ==
    /\ IF ~path_ok
       THEN /\ response' = Resp("initialize_project", session_id, 400)
            /\ UNCHANGED <<cwd, worker, sessions, coders, disk>>
       ELSE IF o = "fail"
       THEN \* 1341-1342 ran, 1346 raised
            /\ sessions' = DictDel(sessions, session_id)
            /\ response' = Resp("initialize_project", session_id, 500)
            /\ UNCHANGED <<cwd, worker, coders, disk>>
       ELSE LET \* 1322: os.chdir(project_path) before the agent is built;
                \* 1400: the directory is restored when the handler ends
                coder == [initialize_coder(o) EXCEPT !.root = ProjectPath]
                new == [coder |-> Len(coders) + 1,
                        messages |-> <<"info", "assistant">>,
                        files |-> <<>>,
                        last_aider_commit_hash |->
                            coder.last_aider_commit_hash,
                        input_history |-> <<>>,
                        created_at |-> time_time,
                        \* 1363: the model the request names
                        model |-> "m1",
                        project_path |-> ProjectPath] IN
            /\ Len(coders) < MaxCoders
            /\ coders' = Append(coders, coder)
            /\ sessions' = DictSet(DictDel(sessions, session_id),
                                   session_id, new)
            /\ disk' = DictSet(disk, session_id, save_session(new))
            /\ response' = Resp("initialize_project", session_id, 200)
    /\ UNCHANGED <<cwd, worker, requests, message_queues, cancellation_requests, queues,
                   threads,
                   relays, head, qlog>>

\* ------------------------------------------------------------------------
\* add_files (887-914), remove_files (916-942), add_web_page (944-966)
\* ------------------------------------------------------------------------
\* The agent's in-chat files are kept as a list, in the order add_rel_fname
\* was called: nothing is assumed of the agent that would make a file named
\* twice appear once.
InChat(abs_fnames) == {abs_fnames[i] : i \in 1..Len(abs_fnames)}

\* a loop that adds every file the request names
RECURSIVE C26_AddAll(_, _, _)
C26_AddAll(abs_fnames, messages, files) ==
    IF files = <<>>
    THEN [abs_fnames |-> abs_fnames, messages |-> messages]
    ELSE C26_AddAll(Append(abs_fnames, Head(files)),
                    Append(messages, "info"), Tail(files))

\* 905-909: each file that is not in the chat is added to the agent's list
\* and announced in the transcript
RECURSIVE AddEach(_, _, _)
AddEach(abs_fnames, messages, files) ==
    IF files = <<>>
    THEN [abs_fnames |-> abs_fnames, messages |-> messages]
    ELSE IF Head(files) \notin InChat(abs_fnames)
    THEN AddEach(Append(abs_fnames, Head(files)), Append(messages, "info"),
                 Tail(files))
    ELSE AddEach(abs_fnames, messages, Tail(files))

\* 934-937: each file that drop_rel_fname finds in the agent's list is
\* removed and announced
RECURSIVE DropEach(_, _, _)
DropEach(abs_fnames, messages, files) ==
    IF files = <<>>
    THEN [abs_fnames |-> abs_fnames, messages |-> messages]
    ELSE IF Head(files) \in InChat(abs_fnames)
    THEN DropEach(SelectSeq(abs_fnames, LAMBDA f : f # Head(files)),
                  Append(messages, "info"), Tail(files))
    ELSE DropEach(abs_fnames, messages, Tail(files))

\* the body the two handlers share: each(...) is the loop over the request's
\* files.  A session without a handle makes the first turn of the loop raise
\* AttributeError, which Flask answers with 500.  Neither handler saves.
FilesRequest(handler, session_id, files, o, each) ==
    /\ Room(session_id)
    /\ o \in Outcomes(session_id)
    /\ LET g == get_or_create_session(session_id, o) IN
       IF ~g.ok
       THEN /\ response' = Resp(handler, session_id, 500)
            /\ UNCHANGED <<cwd, worker, sessions, coders, disk>>
       ELSE LET session == g.sessions[session_id] IN
            /\ disk' = g.disk
            /\ IF files = <<>>
               THEN /\ sessions' = g.sessions
                    /\ coders' = g.coders
                    /\ response' = Resp(handler, session_id, 200)
               ELSE IF session.coder = None
               THEN /\ sessions' = g.sessions
                    /\ coders' = g.coders
                    /\ response' = Resp(handler, session_id, 500)
               ELSE LET r == IF each = "add"
                             THEN AddEach(g.coders[session.coder].abs_fnames,
                                          session.messages, files)
                             ELSE DropEach(g.coders[session.coder].abs_fnames,
                                           session.messages, files) IN
                    /\ Len(r.messages) <= MaxMessages
                    /\ coders' = [g.coders EXCEPT
                                     ![session.coder].abs_fnames = r.abs_fnames]
                    /\ sessions' = DictSet(g.sessions, session_id,
                           [session EXCEPT !.messages = r.messages])
                    /\ response' = Resp(handler, session_id, 200)
    /\ UNCHANGED <<cwd, worker, requests, message_queues, cancellation_requests, queues,
                   threads, relays, head, qlog>>

add_files(session_id, files, o) ==
    FilesRequest("add_files", session_id, files, o, "add")

remove_files(session_id, files, o) ==
    FilesRequest("remove_files", session_id, files, o, "drop")

\* content: AiderAPI.scrape_url(url) returned text that is not blank (960-961)
add_web_page(session_id, content, o) ==
    /\ Room(session_id)
    /\ o \in Outcomes(session_id)
    /\ LET g == get_or_create_session(session_id, o) IN
       IF ~g.ok
       THEN /\ response' = Resp("add_web_page", session_id, 500)
            /\ UNCHANGED <<cwd, worker, sessions, coders, disk>>
       ELSE /\ coders' = g.coders
            /\ disk' = g.disk
            /\ IF content
               THEN /\ Len(g.sessions[session_id].messages) < MaxMessages
                    /\ sessions' = [g.sessions EXCEPT
                           ![session_id].messages = Append(@, "text")]
                    /\ response' = Resp("add_web_page", session_id, 200)
               ELSE /\ sessions' = g.sessions
                    /\ response' = Resp("add_web_page", session_id, 404)
    /\ UNCHANGED <<cwd, worker, requests, message_queues, cancellation_requests, queues,
                   threads, relays, head, qlog>>

\* ------------------------------------------------------------------------
\* clear_history (1005-1034).  The handler runs in the request's own thread
\* (app.run(threaded=True), 1804) while a process_chat thread may be
\* appending to the same transcript, so it is taken in three steps: the
\* transcript is replaced (1024-1025), the info entry is appended (1026-1029),
\* the session is saved and the response returned (1032-1034).
\* The session object the handler holds is the table's entry: the
\* specifications that run clear_history have no initialize_project while
\* it is under way.
\* ------------------------------------------------------------------------
Requests == 1..Len(requests)
SetRequest(r, rq) == requests' = [requests EXCEPT ![r] = rq]

\* 1024: initial_messages = session['messages'][:2]
InitialMessages(messages) == SubSeq(messages, 1, 2)

\* 1014-1025; a session without a handle makes 1020 raise AttributeError
clear_history(session_id, o) ==
    /\ Len(requests) < MaxRequests
    /\ Room(session_id)
    /\ o \in Outcomes(session_id)
    /\ LET g == get_or_create_session(session_id, o) IN
       IF ~g.ok
       THEN /\ response' = Resp("clear_history", session_id, 500)
            /\ UNCHANGED <<cwd, worker, sessions, coders, disk, requests>>
       ELSE /\ coders' = g.coders
            /\ disk' = g.disk
            /\ IF g.sessions[session_id].coder = None
               THEN /\ sessions' = g.sessions
                    /\ response' = Resp("clear_history", session_id, 500)
                    /\ UNCHANGED requests
               ELSE /\ sessions' = [g.sessions EXCEPT
                           ![session_id].messages = InitialMessages(@)]
                    /\ requests' = Append(requests,
                           [handler |-> "clear_history",
                            session |-> session_id, pc |-> "append",
                            \* history: the transcript the request found
                            found |-> g.sessions[session_id].messages])
                    /\ UNCHANGED response
    /\ UNCHANGED <<cwd, worker, message_queues, cancellation_requests, queues, threads,
                   relays, head, qlog>>

\* 1026-1029
ClearAppend(r) ==
    LET rq == requests[r] IN
    /\ rq.handler = "clear_history" /\ rq.pc = "append"
    /\ rq.session \in DOMAIN sessions
    /\ sessions' = [sessions EXCEPT ![rq.session].messages =
                        Append(@, "info")]
    /\ SetRequest(r, [rq EXCEPT !.pc = "save"])
    /\ UNCHANGED <<cwd, worker, message_queues, cancellation_requests, disk, coders,
                   queues, threads, relays, head, qlog, response>>

\* 1032-1034
ClearSave(r) ==
    LET rq == requests[r] IN
    /\ rq.handler = "clear_history" /\ rq.pc = "save"
    /\ rq.session \in DOMAIN sessions
    /\ disk' = DictSet(disk, rq.session, save_session(sessions[rq.session]))
    /\ response' = Resp("clear_history", rq.session, 200)
    /\ SetRequest(r, [rq EXCEPT !.pc = "done"])
    /\ UNCHANGED <<cwd, worker, sessions, message_queues, cancellation_requests, coders,
                   queues, threads, relays, head, qlog>>

\* ------------------------------------------------------------------------
\* send_message as the first reference to a session id (603-631, 513-579).
\* Requests run in threads of their own (app.run(threaded=True), 1804) and
\* get_or_create_session holds no lock, so a first reference is taken in
\* three steps: the test of 513 finds no entry; load_session reads the file
\* (536); then the agent is built (538), the entry is assigned (546-553),
\* seeded and saved (556-570) and returned (579), and send_message goes on
\* to its end (618-630).  What another request does between the steps is
\* not seen by this one: the entry is assigned whatever the table holds.
\* ------------------------------------------------------------------------
\* 513: if session_id not in sessions and create
SendFirst(session_id) ==
    /\ Len(requests) < MaxFirsts
    /\ session_id \notin DOMAIN sessions
    /\ requests' = Append(requests,
           [handler |-> "send_message", session |-> session_id,
            pc |-> "load", found |-> <<>>])
    /\ UNCHANGED <<cwd, worker, sessions, message_queues, cancellation_requests, disk,
                   coders, queues, threads, relays, head, qlog, response>>

\* 536: saved_data = load_session(session_id)
SendLoad(r) ==
    LET rq == requests[r] IN
    /\ rq.handler = "send_message" /\ rq.pc = "load"
    /\ SetRequest(r, [rq EXCEPT !.pc = "create",
                                !.found = load_session(rq.session)])
    /\ UNCHANGED <<cwd, worker, sessions, message_queues, cancellation_requests, disk,
                   coders, queues, threads, relays, head, qlog, response>>

\* 546: sessions[session_id] = {...}
Assigned(ss, session_id, session) == DictSet(ss, session_id, session)

\* 538-579, 618-630: o is the outcome of AiderAPI.initialize_coder
SendCreate(r, o) ==
    LET rq == requests[r]
        handle == Len(coders) + 1
        created == Assigned(sessions, rq.session,
                       SessionFor(rq.found, handle, initialize_coder(o)))
        \* 579: return sessions.get(session_id); 620-622
        session == [created[rq.session] EXCEPT
                       !.messages = Append(@, "user"),
                       !.input_history = Append(@, "m")] IN
    /\ rq.handler = "send_message" /\ rq.pc = "create"
    /\ o \in CoderOutcomes
    /\ SetRequest(r, [rq EXCEPT !.pc = "done"])
    /\ IF o = "fail"
       THEN /\ response' = Resp("send_message", rq.session, 500)
            /\ UNCHANGED <<cwd, worker, sessions, coders, disk, threads>>
       ELSE /\ Len(coders) < MaxCoders
            /\ Len(threads) < MaxTurns
            /\ Len(session.messages) <= MaxMessages
            /\ coders' = Append(coders, initialize_coder(o))
            /\ sessions' = DictSet(created, rq.session, session)
            /\ disk' = DictSet(disk, rq.session, save_session(session))
            /\ threads' = Append(threads,
                                 NewThread(rq.session, session.coder))
            /\ response' = Resp("send_message", rq.session, 200)
    /\ UNCHANGED <<cwd, worker, message_queues, cancellation_requests, queues, relays,
                   head, qlog>>

\* ------------------------------------------------------------------------
\* update_model (1457-1560)
\* ------------------------------------------------------------------------
\* a switch that also forgets the session's last commit
C18_ForgetsCommit(session, handle) ==
    [session EXCEPT !.coder = handle, !.messages = Append(@, "info"),
                    !.last_aider_commit_hash = None]

\* 1517-1527: the session takes the new handle and an info entry
ModelSwitched(session, handle) ==
    [session EXCEPT !.coder = handle, !.messages = Append(@, "info")]

\* a copy that leaves the new handle without files
C23_NoFiles(new_coder, files) == new_coder

\* 1509-1511: every file of the outgoing handle is added to the new one,
\* one call of add_rel_fname each
RECURSIVE ReAdded(_, _)
ReAdded(new_coder, files) ==
    IF files = <<>> THEN new_coder
    ELSE ReAdded([new_coder EXCEPT !.abs_fnames = Append(@, Head(files))],
                 Tail(files))

\* o: the outcome of AiderAPI.initialize_coder(args) (1502).  The session is
\* looked up with sessions.get: none is created.  Without a handle, 1509
\* raises AttributeError on None and the handle just built is dropped.
update_model(session_id, model, o) ==
    /\ o \in CoderOutcomes
    /\ IF session_id \notin DOMAIN sessions
       THEN /\ response' = Resp("update_model", session_id, 404)
            /\ UNCHANGED <<cwd, worker, sessions, coders, disk>>
       ELSE IF o = "fail" \/ sessions[session_id].coder = None
       THEN /\ response' = Resp("update_model", session_id, 500)
            /\ UNCHANGED <<cwd, worker, sessions, coders, disk>>
       ELSE LET session == sessions[session_id]
                current_coder == coders[session.coder]
                \* 1493-1498: the agent is built in the session's
                \* project_path, or where the process is
                project_path == IF session.project_path # Unset
                                THEN session.project_path ELSE cwd
                new_coder == ReAdded([initialize_coder(o) EXCEPT
                                         !.root = project_path],
                                     current_coder.abs_fnames)
                switched == [ModelSwitched(session, Len(coders) + 1)
                                EXCEPT !.model = model] IN
            /\ Len(coders) < MaxCoders
            /\ Len(session.messages) < MaxMessages
            /\ coders' = Append(coders, new_coder)
            /\ sessions' = DictSet(sessions, session_id, switched)
            /\ disk' = DictSet(disk, session_id, save_session(switched))
            /\ response' = Resp("update_model", session_id, 200)
    /\ UNCHANGED <<cwd, worker, requests, message_queues, cancellation_requests, queues,
                   threads, relays, head, qlog>>

\* ------------------------------------------------------------------------
\* Specifications.  All are the same program; each explores one part of
\* what its clients and its agent may do, on one session unless it says
\* otherwise.
\* ------------------------------------------------------------------------
Idle == \A t \in Threads : ~Running(t)

\* Turns of one session, one after the other, and cancel requests at any
\* time; the agent streams, reflects and raises.
Next ==
    \/ \E m \in {"", "m"}, o \in AnyOutcome :
          Idle /\ send_message("s1", m, o)
    \/ cancel_message("s1")
    \/ \E t \in Threads : run_stream(t)
    \/ \E t \in Threads : StreamChunk(t, FALSE)
    \/ \E t \in Threads, refl \in BOOLEAN : StreamEnd(t, FALSE, refl, FALSE)
    \/ \E t \in Threads : StreamRaise(t)

Spec == Init /\ [][Next]_vars

\* One turn with everything that can happen around it: cancel requests,
\* the project (re-)initialized under it, an agent that streams, reflects,
\* edits, commits once and raises, a diff that fails.
NextTurn ==
    \/ \E o \in AnyOutcome : Len(threads) < 1 /\ send_message("s1", "m", o)
    \/ cancel_message("s1")
    \/ \E path_ok \in BOOLEAN, o \in {"fail", "diff"} :
          initialize_project("s1", path_ok, o)
    \/ \E t \in Threads : run_stream(t)
    \/ \E t \in Threads : StreamChunk(t, FALSE)
    \/ \E t \in Threads, commit, refl, ed \in BOOLEAN :
          (commit => head = 0) /\ StreamEnd(t, commit, refl, ed)
    \/ \E t \in Threads : StreamRaise(t)
    \/ \E t \in Threads : DiffFails(t)

SpecTurn == Init /\ [][NextTurn]_vars

\* Turns of one session that run at the same time; the agent streams and
\* commits, and reports no reflected message and no edited file.
NextRace ==
    \/ \E o \in {"diff", "unused"} : send_message("s1", "m", o)
    \/ \E t \in Threads : run_stream(t)
    \/ \E t \in Threads : StreamChunk(t, FALSE)
    \/ \E t \in Threads, commit \in BOOLEAN :
          StreamEnd(t, commit, FALSE, FALSE)
    \/ \E t \in Threads : DiffFails(t)

SpecRace == Init /\ [][NextRace]_vars

\* Mode switches between and during turns; the agent reflects.
NextMode ==
    \/ \E o \in AnyOutcome : Idle /\ send_message("s1", "m", o)
    \/ \E mode \in valid_modes \cup {"bogus"}, o \in AnyOutcome,
          c \in CreateOutcomes, announcements \in BOOLEAN,
          params \in {NoParams,
                      [reasoning_effort |-> "0.5", thinking_tokens |-> "1024"],
                      [reasoning_effort |-> "high", thinking_tokens |-> Unset],
                      [reasoning_effort |-> Unset, thinking_tokens |-> "many"]} :
          set_mode("s1", mode, params, o, c, announcements)
    \/ \E t \in Threads : run_stream(t)
    \/ \E t \in Threads, refl \in BOOLEAN : StreamEnd(t, FALSE, refl, FALSE)

SpecMode == Init /\ [][NextMode]_vars

\* Reflective turns of one session, one after the other, that are cancelled
\* between their rounds: the agent commits and edits at the end of a round
\* and asks for another, the diff of a commit may fail.
NextCancel ==
    \/ \E o \in {"code", "unused"} : Idle /\ send_message("s1", "m", o)
    \/ cancel_message("s1")
    \/ \E t \in Threads : run_stream(t)
    \/ \E t \in Threads : StreamChunk(t, FALSE)
    \/ \E t \in Threads, commit, refl \in BOOLEAN :
          StreamEnd(t, commit, refl, commit)
    \/ \E t \in Threads : DiffFails(t)

SpecCancel == Init /\ [][NextCancel]_vars

\* ------------------------------------------------------------------------
\* initialize_project (1290-1402) in the request's own thread
\* (app.run(threaded=True), 1804), taken in two steps: the working directory
\* of the process is changed (1320-1322); the old entry is deleted, the agent
\* built, the new entry assigned and saved, and the directory restored
\* (1340-1400).  Requests of other threads run between the steps.
\* ------------------------------------------------------------------------
\* 1320: original_cwd = os.getcwd(); 1322: os.chdir(project_path)
ProjectEnter(session_id, project_path) ==
    /\ Len(requests) < MaxRequests
    /\ requests' = Append(requests,
           [handler |-> "initialize_project", session |-> session_id,
            pc |-> "build", original_cwd |-> cwd,
            project_path |-> project_path])
    /\ cwd' = project_path
    /\ UNCHANGED <<worker, sessions, message_queues, cancellation_requests, disk,
                   coders, queues, threads, relays, head, qlog, response>>

\* 1340-1400: the rest of the handler; o is the outcome of
\* AiderAPI.initialize_coder
ProjectBuild(r, o) ==
    LET rq == requests[r]
        session_id == rq.session IN
    /\ rq.handler = "initialize_project" /\ rq.pc = "build"
    /\ IF o = "fail"
       THEN \* 1341-1342 ran, 1346 raised
            /\ sessions' = DictDel(sessions, session_id)
            /\ response' = Resp("initialize_project", session_id, 500)
            /\ UNCHANGED <<coders, disk>>
       ELSE LET coder == initialize_coder(o)
                new == [coder |-> Len(coders) + 1,
                        messages |-> <<"info", "assistant">>,
                        files |-> <<>>,
                        last_aider_commit_hash |->
                            coder.last_aider_commit_hash,
                        input_history |-> <<>>,
                        created_at |-> time_time,
                        model |-> "m1",
                        project_path |-> rq.project_path] IN
            /\ Len(coders) < MaxCoders
            /\ coders' = Append(coders, coder)
            /\ sessions' = DictSet(DictDel(sessions, session_id),
                                   session_id, new)
            /\ disk' = DictSet(disk, session_id, save_session(new))
            /\ response' = Resp("initialize_project", session_id, 200)
    /\ SetRequest(r, [rq EXCEPT !.pc = "done"])
    \* 1400: finally: os.chdir(original_cwd)
    /\ cwd' = rq.original_cwd
    /\ UNCHANGED <<worker, message_queues, cancellation_requests, queues,
                   threads, relays, head, qlog>>

\* A project initialized for one session while another session is created
\* by its first send_message, and the turns that follow.
NextCwd ==
    \/ ProjectEnter("s1", ProjectPath)
    \/ \E r \in Requests, o \in CoderOutcomes : ProjectBuild(r, o)
    \/ \E o \in CoderOutcomes : send_message("s2", "m", o)
    \/ \E o \in {"code", "fail"} : update_model("s1", "m1", o)
    \/ \E t \in Threads : run_stream(t)
    \/ \E t \in Threads, commit \in BOOLEAN :
          StreamEnd(t, commit, FALSE, FALSE)

SpecCwd == Init /\ [][NextCwd]_vars

\* ------------------------------------------------------------------------
\* The worker backend (src/aider_worker/aider_worker_backend.py): one
\* process for one session, with one agent (worker_coder).  It publishes on
\* the Redis channel aider_output_<session_id> and starts a process_chat
\* thread for every prompt it receives on aider_input_<session_id>
\* (221-230); the threads are daemons, so they stop with the process.
\* ------------------------------------------------------------------------
\* AIDER_SESSION_ID (190)
WorkerSession == "s1"

WorkerTurns == 1..Len(worker.turns)

\* r.publish(output_channel, json.dumps({'type': ..., 'data': {...}})).
\* turn is history: the process_chat thread that published (0: __main__)
Message(ty, t, h) ==
    [type |-> ty, session_id |-> WorkerSession, hash |-> h, turn |-> t]

Publish(w, event) == [w EXCEPT !.channel = Append(@, event)]

\* 200-213: o is the outcome of AiderAPI.initialize_coder (63-121)
WorkerMain(o) ==
    /\ ~worker.started
    /\ worker' =
          IF o = "fail"
          THEN \* 232-239: the critical error is published and the process
               \* stops
               [Publish(worker, Message("error", 0, None)) EXCEPT
                   !.started = TRUE, !.stopped = TRUE]
          ELSE [worker EXCEPT
                   !.started = TRUE,
                   !.worker_coder = <<[last_aider_commit_hash |-> None,
                                       aider_edited_files |-> FALSE]>>,
                   !.channel = @ \o <<Message("info", 0, None),
                                      Message("assistant", 0, None)>>]
    /\ UNCHANGED <<cwd, sessions, message_queues, cancellation_requests, disk,
                   coders, queues, threads, relays, head, qlog, response,
                   requests>>

Listening == worker.started /\ ~worker.stopped

\* 221-227: a prompt arrives; 177-179: the thread is started.
\* chunks, saw_edits and saw_hash are history: the chunks the agent has
\* yielded, and what the thread read at 149 and at 157
WorkerPrompt ==
    /\ Listening
    /\ Len(worker.turns) < MaxTurns
    /\ worker' = [worker EXCEPT !.turns = Append(@,
          [pc |-> "stream", chunks |-> 0, raised |-> FALSE,
           saw_edits |-> FALSE, saw_hash |-> None])]
    /\ UNCHANGED <<cwd, sessions, message_queues, cancellation_requests, disk,
                   coders, queues, threads, relays, head, qlog, response,
                   requests>>

\* 228-230: the shutdown message ends the loop and the process
WorkerShutdown ==
    /\ Listening
    /\ worker' = [worker EXCEPT !.stopped = TRUE]
    /\ UNCHANGED <<cwd, sessions, message_queues, cancellation_requests, disk,
                   coders, queues, threads, relays, head, qlog, response,
                   requests>>

\* the agent may commit while it produces its reply
WorkerAgent(w, commit) ==
    IF commit /\ w.head < MaxCommits
    THEN [w EXCEPT !.head = @ + 1,
                   !.worker_coder[1].last_aider_commit_hash = w.head + 1]
    ELSE w

\* 135-140: for chunk in coder.run_stream(prompt): r.publish(message_chunk)
WorkerChunk(t, commit) ==
    LET tn == worker.turns[t] IN
    /\ Listening
    /\ tn.pc = "stream"
    /\ tn.chunks < MaxChunks
    /\ worker' = [Publish(WorkerAgent(worker, commit),
                          Message("message_chunk", t, None)) EXCEPT
                     !.turns[t].chunks = @ + 1]
    /\ UNCHANGED <<cwd, sessions, message_queues, cancellation_requests, disk,
                   coders, queues, threads, relays, head, qlog, response,
                   requests>>

\* 135: the agent's stream ends (ed: it reports edited files);
\* 143-146: r.publish(message_complete)
WorkerComplete(t, commit, ed) ==
    LET tn == worker.turns[t]
        w == [WorkerAgent(worker, commit) EXCEPT
                 !.worker_coder[1].aider_edited_files = ed] IN
    /\ Listening
    /\ tn.pc = "stream"
    /\ worker' = [Publish(w, Message("message_complete", t, None)) EXCEPT
                     !.turns[t].pc = "edits"]
    /\ UNCHANGED <<cwd, sessions, message_queues, cancellation_requests, disk,
                   coders, queues, threads, relays, head, qlog, response,
                   requests>>

\* 149-153: if coder.aider_edited_files: r.publish(files_edited)
WorkerEdits(t) ==
    LET tn == worker.turns[t]
        coder == worker.worker_coder[1]
        w == IF coder.aider_edited_files
             THEN Publish(worker, Message("files_edited", t, None))
             ELSE worker IN
    /\ Listening
    /\ tn.pc = "edits"
    /\ worker' = [w EXCEPT !.turns[t].pc = "commit",
                           !.turns[t].saw_edits = coder.aider_edited_files]
    /\ UNCHANGED <<cwd, sessions, message_queues, cancellation_requests, disk,
                   coders, queues, threads, relays, head, qlog, response,
                   requests>>

\* only a commit no commit event has carried is published
C40_OnlyNew(t) ==
    LET tn == worker.turns[t]
        coder == worker.worker_coder[1]
        h == coder.last_aider_commit_hash
        w == IF h # None
                /\ \A i \in 1..Len(worker.channel) :
                      worker.channel[i].hash # h
             THEN Publish(worker, Message("commit", t, h))
             ELSE worker IN
    /\ Listening
    /\ tn.pc = "commit"
    /\ worker' = [w EXCEPT !.turns[t].pc = "done",
                           !.turns[t].saw_hash = h]
    /\ UNCHANGED <<cwd, sessions, message_queues, cancellation_requests, disk,
                   coders, queues, threads, relays, head, qlog, response,
                   requests>>

\* 157-165: if coder.last_aider_commit_hash: r.publish(commit)
WorkerCommit(t) ==
    LET tn == worker.turns[t]
        coder == worker.worker_coder[1]
        h == coder.last_aider_commit_hash
        w == IF h # None
             THEN Publish(worker, Message("commit", t, h))
             ELSE worker IN
    /\ Listening
    /\ tn.pc = "commit"
    /\ worker' = [w EXCEPT !.turns[t].pc = "done",
                           !.turns[t].saw_hash = h]
    /\ UNCHANGED <<cwd, sessions, message_queues, cancellation_requests, disk,
                   coders, queues, threads, relays, head, qlog, response,
                   requests>>

\* 167-174: an exception of the agent or of r.publish ends the turn; the
\* error is published unless that r.publish raises too (again)
WorkerRaise(t, again) ==
    LET tn == worker.turns[t]
        w == IF again THEN worker
             ELSE Publish(worker, Message("error", t, None)) IN
    /\ Listening
    /\ tn.pc \in {"stream", "edits", "commit"}
    /\ worker' = [w EXCEPT !.turns[t].pc = "done",
                           !.turns[t].raised = TRUE]
    /\ UNCHANGED <<cwd, sessions, message_queues, cancellation_requests, disk,
                   coders, queues, threads, relays, head, qlog, response,
                   requests>>

NextWorker ==
    \/ \E o \in {"ok", "fail"} : WorkerMain(o)
    \/ WorkerPrompt
    \/ WorkerShutdown
    \/ \E t \in WorkerTurns, commit \in BOOLEAN : WorkerChunk(t, commit)
    \/ \E t \in WorkerTurns, commit, ed \in BOOLEAN :
          WorkerComplete(t, commit, ed)
    \/ \E t \in WorkerTurns : WorkerEdits(t)
    \/ \E t \in WorkerTurns : WorkerCommit(t)
    \/ \E t \in WorkerTurns, again \in BOOLEAN : WorkerRaise(t, again)

SpecWorker == Init /\ [][NextWorker]_vars

\* First references to one new session id that arrive together, and the
\* turns they start.
NextFirst ==
    \/ SendFirst("s1")
    \/ \E r \in Requests : SendLoad(r)
    \/ \E r \in Requests, o \in CoderOutcomes : SendCreate(r, o)
    \/ \E o \in {"unused"} : send_message("s1", "m", o)
    \/ \E t \in Threads : run_stream(t)
    \/ \E t \in Threads : StreamEnd(t, FALSE, FALSE, FALSE)

SpecFirst == Init /\ [][NextFirst]_vars

\* Undo requests between and during turns that commit.
NextUndo ==
    \/ \E o \in {"fail", "diff", "unused"} : Idle /\ send_message("s1", "m", o)
    \/ \E h \in {None} \cup Hashes, o \in {"fail", "diff", "unused"},
          u \in UndoOutcomes : undo_commit("s1", h, o, u)
    \/ \E c \in CreateOutcomes :
          set_mode("s1", "ask", NoParams, "unused", c, FALSE)
    \/ \E t \in Threads : run_stream(t)
    \/ \E t \in Threads, commit \in BOOLEAN :
          StreamEnd(t, commit, FALSE, FALSE)

SpecUndo == Init /\ [][NextUndo]_vars

\* The requests that follow a turn that may commit: files and a web page
\* added, files removed, the history cleared, the mode and the model changed,
\* the project initialized again (while no clear_history is under way); the
\* turn cancelled and the last commit undone at any time.
Turned == threads # <<>> /\ Idle

NextFrame ==
    \/ \E o \in {"diff", "unused"} :
          Len(threads) < 1 /\ send_message("s1", "m", o)
    \/ cancel_message("s1")
    \/ \E files \in {<<>>, <<"a.py">>} :
          Turned /\ add_files("s1", files, "unused")
    \/ Turned /\ remove_files("s1", <<"a.py">>, "unused")
    \/ \E content \in BOOLEAN :
          Turned /\ add_web_page("s1", content, "unused")
    \/ Turned /\ clear_history("s1", "unused")
    \/ \E r \in Requests : ClearAppend(r)
    \/ \E r \in Requests : ClearSave(r)
    \/ \E c \in CreateOutcomes :
          Turned /\ set_mode("s1", "ask", NoParams, "unused", c, FALSE)
    \/ \E o \in CoderOutcomes : Turned /\ update_model("s1", "m2", o)
    \/ \E o \in {"fail", "diff"} :
          /\ Turned /\ \A r \in Requests : requests[r].pc = "done"
          /\ initialize_project("s1", TRUE, o)
    \/ \E h \in Hashes, u \in UndoOutcomes :
          undo_commit("s1", h, "unused", u)
    \/ \E t \in Threads : run_stream(t)
    \/ \E t \in Threads, commit \in BOOLEAN :
          StreamEnd(t, commit, FALSE, FALSE)

SpecFrame == Init /\ [][NextFrame]_vars

\* The history cleared before, during and after turns that come one after
\* the other.
NextClear ==
    \/ \E o \in {"diff", "unused"} : Idle /\ send_message("s1", "m", o)
    \/ \E o \in {"fail", "diff", "wait", "unused"} : clear_history("s1", o)
    \/ \E r \in Requests : ClearAppend(r)
    \/ \E r \in Requests : ClearSave(r)
    \/ \E t \in Threads : run_stream(t)
    \/ \E t \in Threads : StreamChunk(t, FALSE)
    \/ \E t \in Threads : StreamEnd(t, FALSE, FALSE, FALSE)

SpecClear == Init /\ [][NextClear]_vars

\* The files of one session's chat added and removed, also by requests that
\* name a file twice, its model changed and its history cleared.
NextFiles ==
    \/ \E files \in {<<"a.py">>, <<"b.py">>, <<"a.py", "a.py">>,
                      <<"a.py", "b.py">>},
          o \in {"diff", "wait", "unused"} : add_files("s1", files, o)
    \/ \E files \in {<<"a.py">>, <<"b.py", "b.py">>} :
          remove_files("s1", files, "unused")
    \/ \E model \in Models, o \in CoderOutcomes : update_model("s1", model, o)
    \/ clear_history("s1", "unused")
    \/ \E r \in Requests : ClearAppend(r)
    \/ \E r \in Requests : ClearSave(r)

SpecFiles == Init /\ [][NextFiles]_vars

\* Two sessions: each has one turn, one after the other, and its cancel
\* requests and test messages at any time; once both have had their turn,
\* the model of the first is changed, a file is added to it and its last
\* commit undone.  The channels are observed through what was
\* put on them; no relay consumes them here.
BothTurned == Idle /\ \A s \in Sessions : \E t \in Threads : threads[t].session = s

NextPair ==
    \/ \E s \in Sessions, o \in {"diff", "unused"} :
          /\ Idle
          /\ \A t \in Threads : threads[t].session # s
          /\ send_message(s, "m", o)
    \/ \E s \in Sessions : cancel_message(s)
    \/ \E s \in Sessions : test_message(s, 1)
    \/ \E h \in Hashes, u \in UndoOutcomes :
          BothTurned /\ undo_commit("s1", h, "unused", u)
    \/ BothTurned /\ add_files("s1", <<"a.py">>, "unused")
    \/ \E o \in CoderOutcomes : BothTurned /\ update_model("s1", "m2", o)
    \/ \E t \in Threads : run_stream(t)
    \/ \E t \in Threads : StreamChunk(t, FALSE)
    \/ \E t \in Threads, commit \in BOOLEAN :
          StreamEnd(t, commit, FALSE, commit)

SpecPair == Init /\ [][NextPair]_vars

\* Relay connections of one session, and the turns that feed them.
NextRelay ==
    \/ \E o \in {"diff", "unused"} : Idle /\ send_message("s1", "m", o)
    \/ message_stream("s1")
    \/ \E r \in Relays : generate(r)
    \/ \E t \in Threads : run_stream(t)
    \/ \E t \in Threads : StreamChunk(t, FALSE)
    \/ \E t \in Threads : StreamEnd(t, FALSE, FALSE, FALSE)

SpecRelay == Init /\ [][NextRelay]_vars

\* Sessions created, dropped and created again, with and without a project.
NextCreate ==
    \/ \E session_id \in Sessions, o \in CoderOutcomes \cup {"wait", "unused"} :
          initialize_session(session_id, o)
    \/ \E o \in {"diff", "unused"} : Idle /\ send_message("s1", "m", o)
    \/ \E session_id \in Sessions, path_ok \in BOOLEAN, o \in {"fail", "diff"} :
          initialize_project(session_id, path_ok, o)
    \/ \E t \in Threads : run_stream(t)
    \/ \E t \in Threads, commit \in BOOLEAN :
          StreamEnd(t, commit, FALSE, FALSE)

SpecCreate == Init /\ [][NextCreate]_vars

\* The threads are scheduled by the operating system: a thread that can take
\* a step of its own eventually takes one.
FairSpec ==
    /\ Init /\ [][Next]_vars
    /\ \A t \in 1..MaxTurns : WF_vars(t \in Threads /\ run_stream(t))

\* Turns with a relay connection that may or may not be opened: the threads
\* are scheduled, and each stream of the agent yields finitely many chunks
\* and ends.  Nothing makes a client connect or a relay take a step.
FairRelay ==
    /\ Init /\ [][NextRelay]_vars
    /\ \A t \in 1..MaxTurns :
          /\ WF_vars(t \in Threads /\ run_stream(t))
          /\ WF_vars(t \in Threads /\ StreamEnd(t, FALSE, FALSE, FALSE))

\* ------------------------------------------------------------------------
\* Properties
\* ------------------------------------------------------------------------
Pub(t) == threads[t].pub
Pc(t) == threads[t].pc
Has(t, ty) == \E i \in 1..Len(Pub(t)) : Pub(t)[i] = ty
Terminal == {"message_complete", "message_cancelled", "error"}
Started(t) == Pc(t) \notin {"q_check", "q_new", "q_get"}

\* C1 as stated: a finished turn's events are exactly one terminal event,
\* with only message_chunk, reflection_info and reflection_limit before it
\* and at most one files_edited and at most one commit after it.
C1_Original ==
    \A t \in Threads : Pc(t) = "done" =>
        \E i \in 1..Len(Pub(t)) :
            /\ Pub(t)[i] \in Terminal
            /\ \A j \in 1..(i - 1) : Pub(t)[j] \in
                   {"message_chunk", "reflection_info", "reflection_limit"}
            /\ \A j \in (i + 1)..Len(Pub(t)) :
                   Pub(t)[j] \in {"files_edited", "commit"}
            /\ Count("files_edited", Pub(t)) <= 1
            /\ Count("commit", Pub(t)) <= 1

\* C1 as amended: every finished turn publishes at least one terminal event:
\* one message_complete per completed round (at most 1 + max_reflections in
\* a reflective turn, at most one otherwise) and at most one
\* message_cancelled or error, which is then the last event of the turn.
\* Only message_chunk events come before the first message_complete;
\* at most one files_edited and at most one commit are published, after the
\* last message_complete; only a commit or an error follows files_edited
\* and nothing follows commit.
C1_TurnEvents ==
    \A t \in Threads :
        LET p == Pub(t) IN
        /\ Pc(t) = "done" => \E i \in 1..Len(p) : p[i] \in Terminal
        /\ Count("message_cancelled", p) + Count("error", p) <= 1
        /\ \A i \in 1..Len(p) :
              p[i] \in {"message_cancelled", "error"} => i = Len(p)
        /\ Count("message_complete", p) <=
              (IF threads[t].use_reflections THEN 1 + max_reflections ELSE 1)
        /\ \A i \in 1..Len(p) :
              p[i] \notin {"message_chunk"} \cup Terminal =>
                  \E j \in 1..(i - 1) : p[j] = "message_complete"
        /\ Count("files_edited", p) <= 1
        /\ Count("commit", p) <= 1
        /\ \A i \in 1..Len(p), j \in 1..Len(p) :
              i < j =>
                /\ p[i] = "files_edited" => p[j] \in {"commit", "error"}
                /\ p[i] = "commit" => FALSE

\* a finished reflective turn of two rounds that reported edits and a commit
C1_Witness ==
    \E t \in Threads :
        /\ Pc(t) = "done"
        /\ Count("message_complete", Pub(t)) >= 2
        /\ Has(t, "files_edited") /\ Has(t, "commit")

\* C2 as stated: a turn during which cancel_message was called publishes
\* exactly one message_cancelled.
C2_Original ==
    \A t \in Threads :
        Pc(t) = "done" /\ threads[t].cancel_requested =>
            Count("message_cancelled", Pub(t)) = 1

FlagSet(session_id) ==
    /\ session_id \in DOMAIN cancellation_requests
    /\ cancellation_requests[session_id]

\* C2 as amended: the flag of the session is read only when a chunk arrives.
\* A turn that receives a chunk while the flag is set publishes
\* message_cancelled next, eventually does so, and publishes it once; a turn
\* publishes message_cancelled in no other case, so a cancel requested after
\* the last chunk of the turn does not cancel it.
C2_CancelAtChunk ==
    /\ [][\A t \in Threads :
            /\ (Pc(t) = "chunk" /\ FlagSet(threads[t].session)
                    /\ threads'[t].pc # Pc(t))
                 => threads'[t].pub = Append(Pub(t), "message_cancelled")
            /\ threads'[t].pub = Append(Pub(t), "message_cancelled")
                 => Pc(t) = "chunk" /\ FlagSet(threads[t].session)]_vars
    /\ [](\A t \in Threads : Count("message_cancelled", Pub(t)) <= 1)
    /\ \A t \in 1..MaxTurns :
          (t \in Threads /\ Pc(t) = "chunk" /\ FlagSet(threads[t].session))
             ~> (t \in Threads /\ Has(t, "message_cancelled"))

\* a turn cancelled while streaming, and finished
C2_Witness ==
    \E t \in Threads :
        /\ Pc(t) = "done" /\ threads[t].cancel_requested
        /\ threads[t].chunks >= 1
        /\ Pub(t) = <<"message_cancelled">>

\* C3: once a turn has published message_cancelled it publishes nothing
\* more and appends no assistant entry, message_cancelled stays its last
\* event, and the flag of its session is false at the step where it stops.
C3_CancelledTurnStops ==
    /\ [][\A t \in Threads : Has(t, "message_cancelled") =>
            /\ threads'[t].pub = Pub(t)
            /\ threads'[t].appended = threads[t].appended
            /\ (/\ threads[t].session \in DOMAIN sessions
                /\ threads[t].session \in DOMAIN sessions'
                /\ threads'[t].pc # Pc(t))
                  => sessions'[threads[t].session].messages =
                         sessions[threads[t].session].messages
            /\ (Pc(t) # "done" /\ threads'[t].pc = "done") =>
                  ~cancellation_requests'[threads[t].session]]_vars
    /\ [](\A t \in Threads : Has(t, "message_cancelled") =>
            /\ Last(Pub(t)) = "message_cancelled"
            /\ Pc(t) \in {"clear", "done"}
            /\ threads[t].appended <= Count("message_complete", Pub(t)))

\* a turn cancelled in its second round has stopped
C3_Witness ==
    \E t \in Threads :
        /\ Pc(t) = "done"
        /\ Has(t, "message_complete") /\ Has(t, "message_cancelled")
        /\ ~FlagSet(threads[t].session)

\* C4: a reflective turn makes at most max_reflections follow-up rounds, so
\* run_stream is invoked at most 1 + max_reflections times; when the agent
\* reports a reflected message after the last allowed reflection the turn
\* publishes reflection_limit and runs no further round.
C4_ReflectionCeiling ==
    /\ [](\A t \in Threads :
            /\ threads[t].num_reflections <= max_reflections
            /\ Len(threads[t].prompts) <= 1 + max_reflections
            /\ Len(threads[t].prompts) <= 1 + threads[t].num_reflections
            /\ Has(t, "reflection_limit") =>
                  /\ threads[t].num_reflections = max_reflections
                  /\ Count("reflection_limit", Pub(t)) = 1
                  /\ Pc(t) \notin {"stream", "chunk", "append", "complete",
                                   "reflect", "refl_append"})
    /\ [][\A t \in Threads :
            /\ (/\ Pc(t) = "reflect" /\ threads'[t].pc # "reflect"
                 /\ threads[t].use_reflections
                 /\ coders[threads[t].coder].reflected_message
                 /\ threads[t].num_reflections = max_reflections)
               => threads'[t].pub = Append(Pub(t), "reflection_limit")
            /\ Has(t, "reflection_limit") =>
                  threads'[t].prompts = threads[t].prompts]_vars

\* a turn that used every reflection and was stopped at the ceiling
C4_Witness ==
    \E t \in Threads :
        /\ Has(t, "reflection_limit")
        /\ Len(threads[t].prompts) = 1 + max_reflections
        /\ Pc(t) = "done"

\* C5: a turn that is not reflective invokes run_stream exactly once, with
\* the user's prompt; when the agent reports a reflected message the turn
\* publishes reflection_info and then refresh_files, and does not resubmit.
C5_SingleRound ==
    /\ [](\A t \in Threads : (Started(t) /\ ~threads[t].use_reflections) =>
            /\ threads[t].prompts = <<"user">>
            /\ threads[t].num_reflections = 0
            /\ Count("message_complete", Pub(t)) <= 1
            /\ \A i \in 1..Len(Pub(t)) : Pub(t)[i] = "reflection_info" =>
                  IF i = Len(Pub(t))
                  THEN Pc(t) \in {"refl_append", "refresh"}
                  ELSE Pub(t)[i + 1] = "refresh_files")
    /\ [][\A t \in Threads :
            (/\ Pc(t) = "reflect" /\ threads'[t].pc # "reflect"
             /\ ~threads[t].use_reflections
             /\ coders[threads[t].coder].reflected_message)
               => threads'[t].pub = Append(Pub(t), "reflection_info")]_vars

\* a finished single-round turn whose agent reported a reflected message
C5_Witness ==
    \E t \in Threads :
        /\ Pc(t) = "done" /\ ~threads[t].use_reflections
        /\ Pub(t) = <<"message_complete", "reflection_info", "refresh_files">>

ModeOf(t) == coders[threads[t].coder].mode

\* C6: after a successful set_mode to "code" a turn on the session is
\* reflective, and after set_mode to "ask" or "context" a turn runs exactly
\* one round.
C6_ReflectiveInCodeMode ==
    \A t \in Threads : Started(t) =>
        /\ ModeOf(t) = "code" => threads[t].use_reflections
        /\ ModeOf(t) \in {"ask", "context"} =>
              /\ ~threads[t].use_reflections
              /\ Len(threads[t].prompts) = 1

\* C7: a turn that was neither cancelled nor aborted publishes a commit
\* event if and only if the agent's last_aider_commit_hash is non-null,
\* differs from the cached one and the diff was computed; at the step that
\* follows the commit event the cached id becomes equal to the agent's.
C7_CommitReconciled ==
    /\ [](\A t \in Threads :
            (/\ Pc(t) \in {"save", "done"}
             /\ ~Has(t, "message_cancelled") /\ ~Has(t, "error"))
              => (Has(t, "commit") <=>
                    /\ threads[t].current_commit # None
                    /\ threads[t].current_commit # threads[t].session_commit
                    /\ ~threads[t].diff_failed))
    /\ [][\A t \in Threads :
            (/\ Pc(t) = "advance" /\ threads'[t].pc = "save"
             /\ threads[t].session \in DOMAIN sessions')
              => sessions'[threads[t].session].last_aider_commit_hash =
                     coders'[threads[t].coder].last_aider_commit_hash]_vars

UndoSteps(session_id, A(_, _, _)) ==
    \A h \in Hashes, o \in AnyOutcome, u \in UndoOutcomes :
        (session_id \in DOMAIN sessions /\ undo_commit(session_id, h, o, u))
            => A(h, u, sessions[session_id])

\* C8 as stated: undo_commit(s, h) is rejected with status 400 and leaves
\* the session as it was when h differs from the cached id, and succeeds
\* and makes the cached id null whenever h equals it.
C8_Original ==
    [][UndoSteps("s1", LAMBDA h, u, session :
          IF session.last_aider_commit_hash # h
          THEN response'.status = 400 /\ UNCHANGED <<sessions, coders, disk>>
          ELSE /\ response'.status = 200
               /\ sessions'["s1"].last_aider_commit_hash = None)]_vars

\* C8 as amended: undo_commit(s, h) on an existing session is rejected with
\* status 400 and changes nothing when h differs from the cached id or from
\* the agent's own last_aider_commit_hash; when h equals both it succeeds
\* and makes the cached id null, unless the agent's undo raises, which
\* gives status 500 and changes nothing.
C8_UndoLatestOnly ==
    [][UndoSteps("s1", LAMBDA h, u, session :
          IF \/ session.last_aider_commit_hash # h
             \/ coders[session.coder].last_aider_commit_hash # h
          THEN response'.status = 400 /\ UNCHANGED <<sessions, coders, disk>>
          ELSE IF u.raises
          THEN response'.status = 500 /\ UNCHANGED <<sessions, coders, disk>>
          ELSE /\ response'.status = 200
               /\ sessions'["s1"].last_aider_commit_hash = None
               /\ sessions'["s1"].coder = session.coder)]_vars

\* the commit a turn reported has been undone
C8_Witness ==
    /\ response = Resp("undo_commit", "s1", 200)
    /\ "s1" \in DOMAIN sessions
    /\ sessions["s1"].last_aider_commit_hash = None
    /\ \E t \in Threads : threads[t].session = "s1" /\ Has(t, "commit")

Attached(r) == relays[r].pc \notin {"q_new", "q_get"}
EventFrames(r) == SelectSeq(relays[r].frames, LAMBDA f : f.turn # 0)
Taken(r) ==
    EventFrames(r) \o
        (IF relays[r].pc = "yield" THEN <<relays[r].message>> ELSE <<>>)
Index(e, log) == CHOOSE i \in 1..Len(log) : log[i] = e
InOrder(got, log) ==
    /\ \A i \in 1..Len(got) : \E j \in 1..Len(log) : log[j] = got[i]
    /\ \A i \in 1..Len(got), j \in 1..Len(got) :
          i < j => Index(got[i], log) < Index(got[j], log)
SoleConsumer(r) ==
    \A r2 \in Relays \ {r} :
        relays[r2].message_queue # relays[r].message_queue

\* C9: the event frames a relay has yielded are events published to its
\* queue, each as it was published, in the order of publication and none
\* twice; a relay that is the only consumer of its queue has taken exactly
\* the events published so far that are no longer in the queue.
C9_RelayOrder ==
    \A r \in Relays : Attached(r) =>
        LET q == relays[r].message_queue IN
        /\ InOrder(Taken(r), qlog[q])
        /\ SoleConsumer(r) => Taken(r) \o queues[q] = qlog[q]

\* a relay has forwarded a chunk and the message_complete after it
C9_Witness ==
    \E r \in Relays :
        /\ Len(EventFrames(r)) >= 2
        /\ EventFrames(r)[1].type = "message_chunk"
        /\ EventFrames(r)[2].type = "message_complete"

Forwarded(e) ==
    UNION {{<<r, i>> : i \in {j \in 1..Len(relays[r].frames) :
                                  relays[r].frames[j] = e}} : r \in Relays}
Held(e) == {r \in Relays : relays[r].pc = "yield" /\ relays[r].message = e}
Queued(q, e) == {i \in 1..Len(queues[q]) : queues[q][i] = e}

C11_OneQueuePerSession ==
    /\ Len(queues) <= Cardinality(DOMAIN message_queues)
    /\ \A r \in Relays, t \in Threads :
          (/\ Attached(r) /\ Started(t)
           /\ relays[r].session = threads[t].session)
            => relays[r].message_queue = threads[t].message_queue

\* C12: two turns of one session never run at the same time.
C12_TurnsExclusive ==
    \A t1 \in Threads, t2 \in Threads :
        (/\ t1 # t2 /\ threads[t1].session = threads[t2].session
         /\ Running(t1)) => ~Running(t2)

\* C13: when the agent's generator or the reconciliation raises (an
\* exception that reaches the handler of the thread), the turn publishes
\* one error event, which is its last event, and ends; the raise and the
\* handler leave the session table, the saved sessions and the handles as
\* they were.  No turn publishes an error event otherwise.
C13_ErrorOnce ==
    /\ [](\A t \in Threads :
            /\ Has(t, "error") =>
                  /\ Count("error", Pub(t)) = 1
                  /\ Last(Pub(t)) = "error"
                  /\ Pc(t) = "done" /\ threads[t].raised
            /\ (Pc(t) = "done" /\ threads[t].raised) => Has(t, "error"))
    /\ [][\A t \in Threads :
            /\ (Pc(t) # "except" /\ threads'[t].pc = "except") =>
                  /\ threads'[t].pub = Pub(t)
                  /\ UNCHANGED <<cwd, worker, sessions, disk, coders>>
            /\ (Pc(t) = "except" /\ threads'[t].pc # "except") =>
                  /\ threads'[t].pub = Append(Pub(t), "error")
                  /\ threads'[t].pc = "done"
                  /\ UNCHANGED <<cwd, worker, sessions, disk, coders>>]_vars

\* the agent raised in the second round of a turn: the error is published
\* and the entries of the first round are in the transcript
C13_Witness ==
    \E t \in Threads :
        /\ Pc(t) = "done" /\ Has(t, "error") /\ Has(t, "message_complete")
        /\ threads[t].session \in DOMAIN sessions
        /\ Count("assistant", sessions[threads[t].session].messages) = 2

\* C14: a request during which the construction of the agent fails, in
\* get_or_create_session or in initialize_project, is answered with status
\* 500 and leaves the session table as it was before the request.
C14_CreationFailureKeepsTable ==
    [][\A session_id \in Sessions :
         LET Failed == response'.status = 500 /\ sessions' = sessions IN
         /\ initialize_session(session_id, "fail") => Failed
         /\ send_message(session_id, "m", "fail") => Failed
         /\ (\E h \in Hashes, u \in UndoOutcomes :
                undo_commit(session_id, h, "fail", u)) => Failed
         /\ (\E mode \in valid_modes, c \in CreateOutcomes, a \in BOOLEAN :
                set_mode(session_id, mode, NoParams, "fail", c, a)) => Failed
         /\ initialize_project(session_id, TRUE, "fail") => Failed]_vars

Persisted(session) ==
    [messages |-> session.messages, files |-> session.files,
     last_aider_commit_hash |-> session.last_aider_commit_hash,
     input_history |-> session.input_history,
     created_at |-> session.created_at]

CreateSteps(A(_, _)) ==
    \A session_id \in Sessions, o \in {"wait", "unused"} \cup NativeFormats :
        initialize_session(session_id, o) => A(session_id, o)

FreshlyCreated(session_id) ==
    /\ session_id \in DOMAIN sessions'
    /\ sessions'[session_id].messages = <<"info", "assistant">>
    /\ sessions'[session_id].coder = Len(coders) + 1
    /\ Len(coders') = Len(coders) + 1
    /\ coders'[Len(coders')].last_aider_commit_hash = None
    /\ session_id \in DOMAIN disk'
    /\ load_session(session_id)' = <<Persisted(sessions'[session_id])>>

\* C16 as stated: get_or_create_session for an id that is neither in the
\* table nor on disk creates a session with a new agent handle and the
\* transcript info, assistant, and writes its file; for an id in the table
\* it changes nothing.
C16_Original ==
    [][CreateSteps(LAMBDA session_id, o :
          IF session_id \in DOMAIN sessions
          THEN UNCHANGED <<sessions, coders, disk>>
          ELSE session_id \notin DOMAIN disk => FreshlyCreated(session_id))]_vars

\* C16 as amended: as stated when the server does not wait for a project;
\* when it does (NEWREV_WAIT_FOR_PROJECT), the session created has no
\* agent handle, has the transcript info, assistant, and no file is
\* written.
C16_GetOrCreate ==
    [][CreateSteps(LAMBDA session_id, o :
          IF session_id \in DOMAIN sessions
          THEN UNCHANGED <<sessions, coders, disk>>
          ELSE IF o = "wait"
          THEN /\ session_id \in DOMAIN sessions'
               /\ sessions'[session_id].messages = <<"info", "assistant">>
               /\ sessions'[session_id].coder = None
               /\ UNCHANGED <<cwd, worker, coders, disk>>
          ELSE session_id \notin DOMAIN disk => FreshlyCreated(session_id))]_vars

\* a session was created with a handle, its two entries and its file
C16_Witness ==
    /\ response = Resp("initialize_session", "s2", 200)
    /\ "s2" \in DOMAIN sessions /\ "s2" \in DOMAIN disk
    /\ sessions["s2"].coder # None
    /\ sessions["s2"].messages = <<"info", "assistant">>

\* the first turn of a new session has finished, it completed without a
\* reflected message, and no other message was sent since
FirstTurnCompleted(t) ==
    /\ Len(threads) = 1 /\ t = 1 /\ Pc(t) = "done"
    /\ Has(t, "message_complete")
    /\ ~Has(t, "message_cancelled") /\ ~Has(t, "error")
    /\ ~Has(t, "reflection_info") /\ ~Has(t, "reflection_limit")
    /\ threads[t].session \in DOMAIN sessions

\* C17 as stated: after the first send_message on a new session, when the
\* turn has completed without reflection, one message_complete has been
\* published and the transcript has three entries.
C17_Original ==
    \A t \in Threads : FirstTurnCompleted(t) =>
        /\ Count("message_complete", Pub(t)) = 1
        /\ Len(sessions[threads[t].session].messages) = 3

\* C17 as amended: one message_complete has been published and the
\* transcript has four entries: the announcement, the greeting, the user's
\* message appended by send_message and the assistant's reply.
C17_FirstTurn ==
    \A t \in Threads : FirstTurnCompleted(t) =>
        /\ Count("message_complete", Pub(t)) = 1
        /\ sessions[threads[t].session].messages =
               <<"info", "assistant", "user", "assistant">>

\* the first turn of a new session completed after a chunk was streamed
C17_Witness ==
    \E t \in Threads :
        /\ FirstTurnCompleted(t)
        /\ Pub(t) = <<"message_chunk", "message_complete">>

\* C20: when computing the diff of the new commit fails, the turn publishes
\* no commit event and no error event, the step leaves every session (and so
\* the cached last-commit id) and every queue as it was, and the turn ends
\* by writing the session to its file.
C20_DiffFailure ==
    /\ [](\A t \in Threads : threads[t].diff_failed =>
            /\ Pc(t) \in {"save", "done"}
            /\ ~Has(t, "commit") /\ ~Has(t, "error"))
    /\ [][\A t \in Threads :
            /\ (Pc(t) = "diff" /\ threads'[t].diff_failed) =>
                  /\ threads'[t].pc = "save"
                  /\ threads'[t].pub = Pub(t)
                  /\ sessions' = sessions /\ queues' = queues
            /\ (threads[t].diff_failed /\ Pc(t) = "save"
                  /\ threads'[t].pc # "save") =>
                  /\ threads'[t].pc = "done"
                  /\ threads'[t].pub = Pub(t)
                  /\ threads[t].session \in DOMAIN sessions =>
                        disk'[threads[t].session] =
                            save_session(sessions[threads[t].session])]_vars

\* a turn whose diff failed has finished after a files_edited event, its
\* session's cached id is still behind the agent's, and the file holds the
\* session
C20_Witness ==
    \E t \in Threads :
        /\ threads[t].diff_failed /\ Pc(t) = "done"
        /\ Has(t, "message_complete")
        /\ threads[t].session \in DOMAIN sessions
        /\ threads[t].session \in DOMAIN disk
        /\ LET session == sessions[threads[t].session] IN
           /\ session.coder # None
           /\ coders[session.coder].last_aider_commit_hash
                  # session.last_aider_commit_hash
           /\ disk[threads[t].session] = save_session(session)

\* a step of one of the requests that are said to leave the cached
\* last-commit id alone, on a session s that exists (so that no agent is
\* constructed for it: the outcome of that is "unused")
FrameRequest(s) ==
    \/ \E m \in {"", "m"} : send_message(s, m, "unused")
    \/ cancel_message(s)
    \/ \E files \in {<<>>, <<"a.py">>} :
          add_files(s, files, "unused") \/ remove_files(s, files, "unused")
    \/ \E content \in BOOLEAN : add_web_page(s, content, "unused")
    \/ clear_history(s, "unused")
    \/ \E r \in Requests :
          requests[r].session = s /\ (ClearAppend(r) \/ ClearSave(r))
    \/ \E mode \in valid_modes, c \in CreateOutcomes,
          announcements \in BOOLEAN :
          set_mode(s, mode, NoParams, "unused", c, announcements)
    \/ \E model \in Models, o \in CoderOutcomes : update_model(s, model, o)

\* the cached last-commit id of session s differs after the step
CachedIdChanged(s) ==
    /\ s \in DOMAIN sessions /\ s \in DOMAIN sessions'
    /\ sessions'[s].last_aider_commit_hash
           # sessions[s].last_aider_commit_hash

\* the step is a successful undo_commit on s, which leaves the cached id null
UndoneTo(s) ==
    /\ \E h \in Hashes, u \in UndoOutcomes : undo_commit(s, h, "unused", u)
    /\ response' = Resp("undo_commit", s, 200)
    /\ sessions'[s].last_aider_commit_hash = None

\* C18 as stated: the cached last-commit id of an existing session changes
\* only in the reconciliation at the end of a turn, which sets it to the
\* agent's live id, and in a successful undo_commit, which sets it to null;
\* a step of send_message, cancel_message, add_files, remove_files,
\* add_web_page, clear_history, set_mode or update_model leaves it as it was.
C18_Original ==
    [][\A s \in Sessions : CachedIdChanged(s) =>
          /\ \/ \E t \in Threads :
                   /\ threads[t].session = s
                   /\ Pc(t) = "advance" /\ threads'[t].pc = "save"
                   /\ sessions'[s].last_aider_commit_hash =
                         coders[threads[t].coder].last_aider_commit_hash
             \/ UndoneTo(s)
          /\ ~FrameRequest(s)]_vars

\* C18 as amended: the cached last-commit id of an existing session changes
\* only in the reconciliation at the end of a turn, which sets it to the id
\* the turn read from its agent when the reconciliation began, in a
\* successful undo_commit, which sets it to null, and in a successful
\* initialize_project, which puts a new session in its place whose cached id
\* is its new agent's; a step of send_message, cancel_message, add_files,
\* remove_files, add_web_page, clear_history, set_mode or update_model leaves
\* it as it was.
C18_CachedIdFrame ==
    [][\A s \in Sessions : CachedIdChanged(s) =>
          /\ \/ \E t \in Threads :
                   /\ threads[t].session = s
                   /\ Pc(t) = "advance" /\ threads'[t].pc = "save"
                   /\ sessions'[s].last_aider_commit_hash =
                         threads[t].current_commit
                   /\ threads[t].current_commit # None
             \/ UndoneTo(s)
             \/ /\ \E o \in NativeFormats : initialize_project(s, TRUE, o)
                /\ response' = Resp("initialize_project", s, 200)
                /\ sessions'[s].last_aider_commit_hash =
                      coders'[sessions'[s].coder].last_aider_commit_hash
          /\ ~FrameRequest(s)]_vars

\* the model was switched on a session whose turn had committed, and the
\* cached id is still that commit's
C18_Witness ==
    /\ response = Resp("update_model", "s1", 200)
    /\ "s1" \in DOMAIN sessions
    /\ sessions["s1"].last_aider_commit_hash \in Hashes
    /\ coders[sessions["s1"].coder].last_aider_commit_hash = None
    /\ \E t \in Threads :
          /\ Has(t, "commit")
          /\ coders[threads[t].coder].last_aider_commit_hash =
                sessions["s1"].last_aider_commit_hash

\* C19: once clear_history has appended its info entry, the transcript
\* begins with the first two entries the request found, unchanged and in
\* order, followed by that info entry, also when a turn of the session is in
\* progress, whose later entries come after the info entry; and the request
\* ends by writing the session to its file.
C19_ClearHistory ==
    /\ [](\A r \in Requests :
            (requests[r].handler = "clear_history"
               /\ requests[r].pc \in {"save", "done"}) =>
                 LET messages == sessions[requests[r].session].messages IN
                 /\ Len(messages) >= 3
                 /\ SubSeq(messages, 1, 3) =
                       InitialMessages(requests[r].found) \o <<"info">>)
    /\ [][\A r \in Requests :
            (requests[r].pc = "save" /\ requests'[r].pc = "done") =>
               disk'[requests[r].session] =
                   save_session(sessions[requests[r].session])]_vars

\* the step is a set_mode request on the existing session s that was
\* answered with status code; failing: Coder.create raises or a parameter
\* is not a number
SetModeStep(s, code, failing) ==
    /\ s \in DOMAIN sessions
    /\ threads' = threads
    /\ response' = Resp("set_mode", s, code)
    /\ \E mode \in valid_modes, params \in ModeParams,
          c \in CreateOutcomes, announcements \in BOOLEAN :
          /\ failing => \/ c = "fail"
                        \/ params.reasoning_effort = "high"
                        \/ params.thinking_tokens = "many"
          /\ set_mode(s, mode, params, "unused", c, announcements)

\* the step installed a handle that did not exist, whose in-chat files are
\* the outgoing handle's, and left the session's file list alone
NewHandleSameFiles(s) ==
    /\ sessions'[s].coder \notin 1..Len(coders)
    /\ sessions'[s].coder \in 1..Len(coders')
    /\ coders'[sessions'[s].coder].abs_fnames =
           coders[sessions[s].coder].abs_fnames
    /\ sessions'[s].files = sessions[s].files

C22_FailedSetMode ==
    [][/\ ~SetModeStep("s1", 200, TRUE)
       /\ ~(/\ ~(sessions' = sessions /\ coders' = coders)
            /\ SetModeStep("s1", 500, TRUE))]_vars

\* a set_mode with a reasoning effort that is no number was refused on a
\* session that has its first handle and a transcript of a finished turn
C22_Witness ==
    /\ response = Resp("set_mode", "s1", 500)
    /\ "s1" \in DOMAIN sessions
    /\ sessions["s1"].coder = 1
    /\ Len(coders) = 1
    /\ Len(sessions["s1"].messages) = 4

\* C28: a handle built by set_mode has the model's native edit format when
\* the mode is 'code' and the mode's name otherwise, and was built with the
\* summarize flag true exactly for 'architect' and 'context'.
C28_ModeArguments ==
    \A h \in 1..Len(coders) : coders[h].mode # "none" =>
        /\ coders[h].edit_format =
              (IF coders[h].mode = "code" THEN coders[h].native
                                          ELSE coders[h].mode)
        /\ coders[h].summarize_from_coder =
              (coders[h].mode \in {"architect", "context"})

\* the step is an update_model request on the existing session s, answered
\* with status code, whose initialize_coder had an outcome of outcomes, and
\* (when it succeeded) the session now names the model it asked for
UpdateModelStep(s, code, outcomes) ==
    /\ s \in DOMAIN sessions
    /\ threads' = threads
    /\ response' = Resp("update_model", s, code)
    /\ \E model \in Models, o \in outcomes :
          /\ update_model(s, model, o)
          /\ code = 200 => sessions'[s].model = model

\* C23: a successful update_model installs a new handle whose in-chat files
\* include every file of the outgoing handle and appends one info entry;
\* when building the new handle fails the request is answered with an
\* error and leaves the session's handle, model and transcript as they
\* were.
C23_UpdateModel ==
    [][/\ \A code \in {200, 404, 500} :
            UpdateModelStep("s1", code, NativeFormats) =>
               \/ /\ code = 200
                  /\ sessions'["s1"].coder \notin 1..Len(coders)
                  /\ sessions'["s1"].coder \in 1..Len(coders')
                  /\ InChat(coders[sessions["s1"].coder].abs_fnames) \subseteq
                        InChat(coders'[sessions'["s1"].coder].abs_fnames)
                  /\ sessions'["s1"].messages =
                        Append(sessions["s1"].messages, "info")
               \/ /\ code = 500
                  /\ sessions["s1"].coder = None
                  /\ sessions' = sessions
       /\ \A code \in {200, 404, 500} :
            UpdateModelStep("s1", code, {"fail"}) =>
               code = 500 /\ sessions' = sessions]_vars

\* the model was changed on a session with two files in the chat, and the
\* new handle has both
C23_Witness ==
    /\ response = Resp("update_model", "s1", 200)
    /\ "s1" \in DOMAIN sessions
    /\ sessions["s1"].model = "m2"
    /\ sessions["s1"].coder = 2
    /\ InChat(coders[1].abs_fnames) = {"a.py", "b.py"}
    /\ InChat(coders[2].abs_fnames) = {"a.py", "b.py"}

\* C26: no file is twice in the chat of a session's handle.
C26_NoDuplicateFile ==
    \A s \in DOMAIN sessions : sessions[s].coder # None =>
        LET abs_fnames == coders[sessions[s].coder].abs_fnames IN
        \A i, j \in 1..Len(abs_fnames) :
            abs_fnames[i] = abs_fnames[j] => i = j

\* files were added to the chat, the model was changed, and a file was
\* added after that
C26_Witness ==
    /\ response = Resp("add_files", "s1", 200)
    /\ "s1" \in DOMAIN sessions
    /\ sessions["s1"].coder = 2
    /\ coders[1].abs_fnames = <<"a.py">>
    /\ coders[2].abs_fnames = <<"a.py", "b.py">>

\* ------------------------------------------------------------------------
\* C27: every message_chunk, message_complete, files_edited and commit event
\* on session s's channel, and every such event a relay of s has forwarded,
\* carries session_id = s.
\* ------------------------------------------------------------------------
Labelled == {"message_chunk", "message_complete", "files_edited", "commit"}

C27_EventsLabelled ==
    /\ \A s \in DOMAIN message_queues :
          \A i \in 1..Len(qlog[message_queues[s]]) :
             LET e == qlog[message_queues[s]][i] IN
             e.type \in Labelled => e.session_id = s
    /\ \A r \in Relays :
          \A i \in 1..Len(relays[r].frames) :
             LET e == relays[r].frames[i] IN
             e.type \in Labelled => e.session_id = relays[r].session

\* both sessions' channels hold events, one of them all four kinds, put by
\* a turn and by a test message
C27_Witness ==
    /\ DOMAIN message_queues = Sessions
    /\ \A s \in Sessions : qlog[message_queues[s]] # <<>>
    /\ \E s \in Sessions :
          /\ \A ty \in Labelled :
                \E i \in 1..Len(qlog[message_queues[s]]) :
                   qlog[message_queues[s]][i].type = ty
          /\ \E i, j \in 1..Len(qlog[message_queues[s]]) :
                /\ qlog[message_queues[s]][i].turn = 0
                /\ qlog[message_queues[s]][j].turn # 0

\* ------------------------------------------------------------------------
\* C24: sessions do not interact.  A step that changes session B's
\* transcript, cached last-commit id, cancellation flag, channel contents
\* or the state of one of B's turns is a step of a turn of B or of a request
\* on B; so no request or turn on another session A changes them, no
\* cancel_message(A) cancels a turn of B, and no event of A's turn is put
\* on B's channel.
\* ------------------------------------------------------------------------
\* what a thread's own steps change (cancel_requested is set by the handler)
Core(th) == [th EXCEPT !.cancel_requested = FALSE]
Moved(t) == Core(threads'[t]) # Core(threads[t])
\* the step is taken by a turn of session s, or by a request on session s
StepOn(s) ==
    \/ \E t \in Threads : threads[t].session = s /\ Moved(t)
    \/ /\ \A t \in Threads : ~Moved(t)
       /\ response'.session = s

\* a dict's entry as a sequence: empty when the key is absent
TranscriptOf(ss, s) == IF s \in DOMAIN ss THEN <<ss[s].messages>> ELSE <<>>
CachedIdOf(ss, s) ==
    IF s \in DOMAIN ss THEN <<ss[s].last_aider_commit_hash>> ELSE <<>>
FlagOf(cr, s) == IF s \in DOMAIN cr THEN <<cr[s]>> ELSE <<>>
ChannelOf(mq, qs, s) == IF s \in DOMAIN mq THEN <<qs[mq[s]]>> ELSE <<>>
TurnsOf(ths, s) == SelectSeq(ths, LAMBDA th : th.session = s)

SessionChanged(s) ==
    \/ TranscriptOf(sessions', s) # TranscriptOf(sessions, s)
    \/ CachedIdOf(sessions', s) # CachedIdOf(sessions, s)
    \/ FlagOf(cancellation_requests', s) # FlagOf(cancellation_requests, s)
    \/ ChannelOf(message_queues', queues', s)
          # ChannelOf(message_queues, queues, s)
    \/ ChannelOf(message_queues', qlog', s) # ChannelOf(message_queues, qlog, s)
    \/ TurnsOf(threads', s) # TurnsOf(threads, s)

C24_NoInteraction ==
    [][\A A, B \in Sessions :
          A # B /\ StepOn(A) => ~SessionChanged(B)]_vars

\* both sessions have a transcript, a raised flag and events on their
\* channel put by their own turn; one turn was cancelled, the other one
\* committed and gave its session a cached commit id
C24_Witness ==
    /\ DOMAIN sessions = Sessions
    /\ DOMAIN message_queues = Sessions
    /\ \A s \in Sessions :
          /\ s \in DOMAIN cancellation_requests
          /\ \E i \in 1..Len(qlog[message_queues[s]]) :
                qlog[message_queues[s]][i].turn # 0
    /\ \E s \in Sessions : sessions[s].last_aider_commit_hash # None
    /\ \E t \in Threads : Has(t, "message_cancelled")

\* ------------------------------------------------------------------------
\* C30 as stated: every message_complete frame of every connection is
\* immediately followed by a keep-alive frame.  It fails for a connection
\* that the client closes at the yield of the message_complete (686): the
\* GeneratorExit leaves generate() before the yield of 690.
\* ------------------------------------------------------------------------
C30_Original ==
    \A r \in Relays :
       \A i \in 1..Len(relays[r].frames) :
          relays[r].frames[i].type = "message_complete" =>
             /\ i < Len(relays[r].frames)
             /\ relays[r].frames[i + 1].type = "keep-alive"

\* ------------------------------------------------------------------------
\* C30 amended: every relay connection emits a connected frame before any
\* other frame, and exactly one keep-alive frame immediately after each
\* message_complete frame it forwards, before the next queued event,
\* unless the client closes the connection at that message_complete frame,
\* which is then its last frame.  The keep-alive frames of a connection are
\* those that follow a message_complete and those of its timeouts, no more.
\* ------------------------------------------------------------------------
Completes(fs) == {i \in 1..Len(fs) : fs[i].type = "message_complete"}

C30_RelayFrames ==
    \A r \in Relays :
       LET fs == relays[r].frames IN
       /\ fs # <<>> => /\ fs[1].type = "connected"
                       /\ \A i \in 2..Len(fs) : fs[i].type # "connected"
       /\ \A i \in Completes(fs) :
             IF i < Len(fs) THEN fs[i + 1].type = "keep-alive"
             ELSE relays[r].pc = "closed"
       /\ Cardinality({i \in 1..Len(fs) : fs[i].type = "keep-alive"})
             = Cardinality({i \in Completes(fs) : i < Len(fs)})
               + relays[r].timeouts

\* a connection forwarded a message_complete and its keep-alive, then the
\* next event of the queue, and also emitted a keep-alive of a timeout
C30_Witness ==
    \E r \in Relays :
       LET fs == relays[r].frames IN
       /\ relays[r].timeouts > 0
       /\ \E i \in Completes(fs) :
             /\ i + 2 <= Len(fs)
             /\ fs[i + 1].type = "keep-alive"
             /\ fs[i + 2].turn # 0

\* ------------------------------------------------------------------------
\* C29: a send_message that is accepted has appended exactly one user entry
\* to the transcript and the raw prompt to the input history and has saved
\* the session, all before the thread of the turn has published any event;
\* its response does not wait for an event: at the response the thread has
\* not taken a step and no queue has changed.
\* ------------------------------------------------------------------------
\* the session send_message works on: the one of the dict, or the one that
\* get_or_create_session has just made
Worked(s) ==
    IF s \in DOMAIN sessions THEN sessions[s]
    ELSE [sessions'[s] EXCEPT !.messages = <<"info", "assistant">>,
                              !.input_history = <<>>]

Accepted(s) ==
    /\ Len(threads') = Len(threads) + 1
    /\ response' = Resp("send_message", s, 200)

C29_AcceptedSend ==
    [][\A s \in Sessions : Accepted(s) =>
          /\ sessions'[s].messages = Append(Worked(s).messages, "user")
          /\ sessions'[s].input_history
                = Append(Worked(s).input_history, "m")
          /\ s \in DOMAIN disk'
          /\ disk'[s] = save_session(sessions'[s])
          /\ json_load(disk'[s].messages) = sessions'[s].messages
          /\ Last(threads').session = s
          /\ Last(threads').pub = <<>>
          /\ Last(threads').pc = "q_check"
          /\ qlog' = qlog /\ queues' = queues
          /\ \A t \in Threads : threads'[t] = threads[t]]_vars

\* a second message was accepted on a session whose first turn is over and
\* has published its events; the second turn has published nothing yet
C29_Witness ==
    /\ response = Resp("send_message", "s1", 200)
    /\ Len(threads) = 2
    /\ Pub(1) # <<>>
    /\ Pub(2) = <<>>
    /\ Pc(2) = "q_check"
    /\ Count("user", sessions["s1"].messages) = 2
    /\ disk["s1"] = save_session(sessions["s1"])

\* ------------------------------------------------------------------------
\* C25: publishing never blocks the producer.  Every turn whose streams
\* end runs to its end: it publishes a terminal event and its thread
\* finishes, whether a relay is attached to the channel, attached late, or
\* never.
\* ------------------------------------------------------------------------
Finished(t) ==
    /\ t \in Threads
    /\ Pc(t) = "done"
    /\ \E ty \in Terminal : Has(t, ty)

C25_TurnEnds ==
    \A t \in 1..MaxTurns : (t \in Threads) ~> Finished(t)

\* a turn has finished although no relay was ever attached and its events
\* are all still in the queue
C25_Witness ==
    /\ relays = <<>>
    /\ Finished(1)
    /\ Len(queues[message_queues["s1"]]) >= 2
    /\ queues[message_queues["s1"]] = qlog[message_queues["s1"]]

\* ------------------------------------------------------------------------
\* C31: a relay whose wait times out emits one keep-alive frame and goes on
\* waiting on the same queue: the step changes nothing else (no turn, no
\* session, no flag, no queue), and a relay that has timed out has still
\* skipped no event: as the only consumer of its queue, what it has taken
\* and what is left in the queue are the events published, in order.
\* ------------------------------------------------------------------------
TimedOut(r) ==
    /\ Len(relays') = Len(relays)
    /\ relays'[r].timeouts = relays[r].timeouts + 1

NotSkipped ==
    \A r \in Relays :
       (relays[r].timeouts > 0 /\ Attached(r) /\ SoleConsumer(r)) =>
          Taken(r) \o queues[relays[r].message_queue]
             = qlog[relays[r].message_queue]

C31_Timeout ==
    [][/\ \A r \in Relays : TimedOut(r) =>
            /\ relays'[r] = [relays[r] EXCEPT
                    !.frames = Append(@, Frame("keep-alive")),
                    !.timeouts = @ + 1]
            /\ relays'[r].pc = "wait"
            /\ \A r2 \in Relays \ {r} : relays'[r2] = relays[r2]
            /\ UNCHANGED <<cwd, worker, threads, sessions, cancellation_requests,
                           message_queues, queues, qlog, coders, disk,
                           head>>
       /\ NotSkipped']_vars

\* a relay timed out while a turn was under way, and has afterwards
\* forwarded the events of that turn up to its message_complete
C31_Witness ==
    \E r \in Relays :
       LET fs == relays[r].frames IN
       /\ relays[r].timeouts > 0
       /\ relays[r].pc = "wait"
       /\ Len(fs) >= 4
       /\ fs[2].type = "keep-alive"
       /\ fs[3].type = "message_chunk"
       /\ \E i \in 4..Len(fs) : fs[i].type = "message_complete"

\* ------------------------------------------------------------------------
\* C32: a cancel_message issued while no turn of the session is running
\* does not cancel a later turn: a turn that publishes message_cancelled
\* was asked to cancel while it was running.
\* ------------------------------------------------------------------------
C32_NoStaleCancel ==
    \A t \in Threads :
        Has(t, "message_cancelled") => threads[t].cancel_requested

\* ------------------------------------------------------------------------
\* C33 as stated: a turn that is cancelled after the agent has committed
\* publishes no files_edited and no commit event and leaves the cached id
\* as it was; the next turn, when it completes, publishes the commit event
\* of that commit and the cached id is that commit.  It fails when the
\* agent commits again in the next turn (only the later commit is
\* reported) and when the diff of the commit fails (nothing is reported).
\* ------------------------------------------------------------------------
CancelledAfterCommit(t) ==
    /\ Pc(t) = "done"
    /\ Has(t, "message_cancelled")
    /\ threads[t].committed # None
Completed(t) ==
    /\ Pc(t) = "done"
    /\ Has(t, "message_complete")
    /\ ~Has(t, "message_cancelled")
    /\ ~Has(t, "error")
\* the commit events on the channel of session s, and the last hash reported
CommitEvents(s) ==
    IF s \in DOMAIN message_queues
    THEN SelectSeq(qlog[message_queues[s]], LAMBDA e : e.type = "commit")
    ELSE <<>>
LastReported(s) ==
    IF CommitEvents(s) = <<>> THEN None ELSE Last(CommitEvents(s)).hash
Reports(t, h) ==
    \E i \in 1..Len(CommitEvents(threads[t].session)) :
       /\ CommitEvents(threads[t].session)[i].turn = t
       /\ CommitEvents(threads[t].session)[i].hash = h
CachedId(t) == sessions[threads[t].session].last_aider_commit_hash
Unreported(t) ==
    /\ ~Has(t, "files_edited")
    /\ ~Has(t, "commit")
    /\ t = Len(threads) => CachedId(t) = LastReported(threads[t].session)

C33_Original ==
    \A t \in Threads : CancelledAfterCommit(t) =>
       /\ Unreported(t)
       /\ (t + 1 = Len(threads) /\ Completed(t + 1)) =>
             /\ Reports(t + 1, threads[t].committed)
             /\ CachedId(t + 1) = threads[t].committed

\* ------------------------------------------------------------------------
\* C33 amended: a turn that is cancelled after the agent has committed
\* publishes no files_edited and no commit event and leaves the cached id
\* as it was.  The next turn, when it completes and the diff of the commit
\* does not fail, publishes one commit event, for the agent's last commit:
\* the commit of the cancelled turn if the agent has not committed again,
\* the later commit otherwise, and the cached id is that commit.  When the
\* diff fails it publishes no commit event and the cached id stays.
\* ------------------------------------------------------------------------
C33_CancelledCommit ==
    \A t \in Threads : CancelledAfterCommit(t) =>
       /\ Unreported(t)
       /\ (t + 1 = Len(threads) /\ Completed(t + 1)) =>
             LET h == IF threads[t + 1].committed # None
                      THEN threads[t + 1].committed
                      ELSE threads[t].committed IN
             IF threads[t + 1].diff_failed
             THEN /\ ~Has(t + 1, "commit")
                  /\ CachedId(t + 1) = LastReported(threads[t].session)
             ELSE /\ Count("commit", Pub(t + 1)) = 1
                  /\ Reports(t + 1, h)
                  /\ CachedId(t + 1) = h

\* the first turn committed in its first round and edited, and was
\* cancelled in its second; the second turn has completed without a
\* commit of its own and has reported the commit of the first
C33_Witness ==
    /\ Len(threads) = 2
    /\ CancelledAfterCommit(1)
    /\ Has(1, "message_complete")
    /\ Completed(2)
    /\ threads[2].committed = None
    /\ Reports(2, threads[1].committed)
    /\ CachedId(2) = threads[1].committed

\* ------------------------------------------------------------------------
\* C34: after a successful undo_commit of hash h, a later turn in which
\* the agent creates no commit publishes no commit event: a turn that
\* publishes a commit event has made that commit, so that no commit is
\* reported a second time.
\* ------------------------------------------------------------------------
C34_NotReportedAgain ==
    \A t \in Threads :
        Has(t, "commit") =>
           /\ threads[t].committed # None
           /\ Reports(t, threads[t].committed)

\* ------------------------------------------------------------------------
\* C35: send_message on a session that has no agent handle fails without
\* starting a turn and leaves the session's transcript and input history
\* unchanged.
\* ------------------------------------------------------------------------
C35_NoHandleNoChange ==
    [][\A s \in Sessions :
          (/\ response' = Resp("send_message", s, 500)
           /\ threads' = threads
           /\ s \in DOMAIN sessions
           /\ sessions[s].coder = None)
          => /\ sessions'[s].messages = sessions[s].messages
             /\ sessions'[s].input_history = sessions[s].input_history]_vars

\* ------------------------------------------------------------------------
\* C36: the file set stored in the session (the one initialize_session
\* returns and save_session writes) is the in-chat file set of the
\* session's agent handle.
\* ------------------------------------------------------------------------
C36_FilesInStep ==
    \A s \in DOMAIN sessions :
        sessions[s].coder # None =>
           InChat(sessions[s].files)
              = InChat(coders[sessions[s].coder].abs_fnames)

\* ------------------------------------------------------------------------
\* C37: two concurrent first references to one new session id yield a
\* single entry: no user entry appended through the entry a request
\* obtained is lost, so the transcript of the session has one user entry
\* for each send_message that was accepted (each has started a turn).
\* ------------------------------------------------------------------------
C37_NoLostEntry ==
    \A s \in DOMAIN sessions :
        Count("user", sessions[s].messages)
           = Cardinality({t \in Threads : threads[t].session = s})

\* ------------------------------------------------------------------------
\* C38: after initialize_project has replaced the entry of a session id, a
\* turn that was started on the old entry (it runs on the old handle) and
\* is still running appends nothing to the new session's transcript and
\* does not change its cached last-commit id.
\* ------------------------------------------------------------------------
OnOldEntry(t) ==
    /\ threads[t].session \in DOMAIN sessions
    /\ sessions[threads[t].session].coder # threads[t].coder

C38_OldTurnIsolated ==
    [][\A t \in Threads :
          (OnOldEntry(t) /\ Moved(t)) =>
             /\ threads[t].session \in DOMAIN sessions'
             /\ TranscriptOf(sessions', threads[t].session)
                   = TranscriptOf(sessions, threads[t].session)
             /\ CachedIdOf(sessions', threads[t].session)
                   = CachedIdOf(sessions, threads[t].session)]_vars

\* ------------------------------------------------------------------------
\* C39: a session created lazily by get_or_create_session (it has no
\* project_path) is bound to the server's own project root: the agent of
\* its entry was built in the directory the server runs in, also when
\* initialize_project of another session is under way.
\* ------------------------------------------------------------------------
C39_LazyAtServerRoot ==
    \A s \in DOMAIN sessions :
        (sessions[s].project_path = Unset /\ sessions[s].coder # None)
           => coders[sessions[s].coder].root = ServerRoot

\* ------------------------------------------------------------------------
\* C40: in the worker backend, every turn that has ended without an
\* exception has published, in this order: a message_chunk for each chunk of
\* its stream, one message_complete, files_edited if the agent reported
\* edited files when the turn asked, and a commit event with the agent's
\* last-commit id if that id was non-null when the turn asked, whether or
\* not an earlier turn has published that commit.  Nothing else is
\* published by the turn: no cancellation is observed.
\* ------------------------------------------------------------------------
PublishedBy(t) ==
    LET own == SelectSeq(worker.channel, LAMBDA e : e.turn = t) IN
    [i \in 1..Len(own) |-> <<own[i].type, own[i].hash>>]

Expected(t) ==
    LET tn == worker.turns[t] IN
    [i \in 1..tn.chunks |-> <<"message_chunk", None>>]
       \o <<<<"message_complete", None>>>>
       \o (IF tn.saw_edits THEN <<<<"files_edited", None>>>> ELSE <<>>)
       \o (IF tn.saw_hash # None THEN <<<<"commit", tn.saw_hash>>>>
           ELSE <<>>)

EndedWell(t) == worker.turns[t].pc = "done" /\ ~worker.turns[t].raised

C40_WorkerTurn ==
    \A t \in WorkerTurns : EndedWell(t) => PublishedBy(t) = Expected(t)

\* two turns have ended without an exception; the first published a chunk,
\* files_edited and a commit, the second published the same commit again
C40_Witness ==
    /\ Len(worker.turns) = 2
    /\ EndedWell(1) /\ EndedWell(2)
    /\ worker.turns[1].chunks > 0
    /\ worker.turns[1].saw_edits
    /\ worker.turns[1].saw_hash # None
    /\ worker.turns[2].saw_hash = worker.turns[1].saw_hash
    /\ \E i, j \in 1..Len(worker.channel) :
          /\ i < j
          /\ worker.channel[i].type = "commit"
          /\ worker.channel[j].type = "commit"
          /\ worker.channel[i].turn = 1
          /\ worker.channel[j].turn = 2
          /\ worker.channel[i].hash = worker.channel[j].hash

====
